---------------------------- MODULE Spec2Model ----------------------------
(***************************************************************************)
(* A model of the anomaly detection engine of src/ml: the rolling bit      *)
(* counter and the rolling bit window (RollingBitCounter.h/.cc), the       *)
(* train/predict operations of a dimension (Unit.h/.cc) and the detection  *)
(* tick of a host (Host.h/.cc).                                            *)
(*                                                                         *)
(* Several specifications share the module:                                *)
(*   SpecRBW   one RollingBitWindow fed an arbitrary bit stream;           *)
(*   SpecDim   one Dimension whose train() and predict() are called by     *)
(*             two threads;                                                *)
(*   SpecHost  one Host: its detection tick, its training sweep and the    *)
(*             callers of addDimension / removeDimension;                  *)
(*   SpecS6    one Host with one dimension whose bit is set from the       *)
(*             start until the window falls back below its threshold;      *)
(*   SpecSB    SamplesBuffer::preprocess on buffers of bounded shape;      *)
(*   SpecQuery the query loop of Unit::getCalculatedNumbers;               *)
(*   SpecTrain the training loop of Host::train over two dimensions;       *)
(*   SpecStop  the training and detection loops, the stop call and the     *)
(*             exit flag.                                                  *)
(*   SpecCtor  the configuration read by ml_init and the construction of   *)
(*             a Host's RollingBitWindow from it;                          *)
(*   SpecFanout one call of function_fanout over a changing set of hosts;  *)
(*   SpecCB    one CircularBuffer under push and pop;                      *)
(*   SpecOtel  one DimensionContainer under add and pop;                   *)
(*   SpecAD    AnomalyDetector::getAnomalyEvents on bounded bit vectors;   *)
(*   SpecMap   the threads that add, remove and sweep the dimensions of a  *)
(*             Host under Host::Mutex;                                     *)
(*   SpecProcess one DimensionContainer under add and process.             *)
(* The variables of the parts a specification does not exercise keep       *)
(* their initial values.                                                   *)
(***************************************************************************)
EXTENDS Integers, Sequences, FiniteSets, TLC

(***************************************************************************)
(* Bounds of the model.                                                    *)
(***************************************************************************)
\* Largest MinLength (= capacity of the counter) a window is built with.
MaxMinLength == 4
\* Number of bits fed to the window.
MaxInserts == 14
\* Last instant of the steady clock.
MaxClock == 4
\* Last instant of the clock in the specification of the host.
MaxHostClock == 2
\* Number of detection ticks.
MaxTicks == 3

VARIABLES
    RBW,      \* the RollingBitWindow object (its RollingBitCounter inside)
    ret,      \* what the last RollingBitWindow::insert returned
    pre,      \* history: the window as it was before the last insert
    recent,   \* history: the last MinLength + 1 inserted bits, newest last
    aaRun,    \* history: (Above, Above) edges since AboveThreshold was entered
    s1pos,    \* history: n while the n bits inserted are a prefix of StreamS1, else -1
    falls     \* history: lengths returned at falling edges while s1pos # -1

varsW == <<RBW, ret, pre, recent, aaRun, s1pos, falls>>

VARIABLES
    Mutex,    \* the dimension's std::mutex: "free" or the thread that holds it
    dim,      \* the TrainableDimension: LastTrainedAt, HasModel, AnomalyScore, AnomalyBit
    pc,       \* where each thread is in its call of train() / predict()
    res,      \* the MLError (and, for predict, the bit) each thread's last call returned
    Now,      \* the argument Now of the call of train() in progress
    clock,    \* SteadyClock::now()
    trained,  \* history: the Now of every train() that returned Success, oldest first
    trainN,   \* P.second of the last train() that got to getCalculatedNumbers
    predictN  \* P.second of the last predict() that got to getCalculatedNumbers

varsD == <<Mutex, dim, pc, res, Now, clock, trained, trainN, predictN>>

VARIABLES
    DimensionsMap,  \* Host::DimensionsMap: the ids of the dimensions in the map
    dims,           \* the Dimension object of each id
    NumDimensions,  \* Host::NumDimensions (std::atomic<size_t>)
    hRBW,           \* DetectableHost::RBW
    AnomalyRate,    \* DetectableHost::AnomalyRate, a fraction [num, den]
    DB,             \* the records handed to DB.insertAnomaly, oldest first
    dpc,            \* where the detection thread is in detectOnce
    loc,            \* the locals of the detectOnce in progress (or of the last one)
    svc,            \* per dimension id: where its addDimension / removeDimension is
    ticks,          \* number of detectOnce calls begun
    hist            \* history of the last detectOnce: the dimensions its first sweep
                    \* visited and found anomalous, the rates its second sweep
                    \* computed, the number of records in DB when it began

varsH == <<DimensionsMap, dims, NumDimensions, hRBW, AnomalyRate, DB, dpc, loc,
           svc, ticks, hist>>

VARIABLES
    netdata_exit,   \* the process-wide flag the two loops test
    tpc,            \* where the training thread is in TrainableHost::train
    lpc,            \* where the detection thread is in DetectableHost::detect
    jpc,            \* where the caller of stopAnomalyDetectionThreads is
    nap,            \* sleeps of AllottedDuration since SteadyClock last advanced
    justTrained     \* history: the dimensions whose train() the last trainOne saw succeed

varsT == <<netdata_exit, tpc, lpc, jpc, nap, justTrained>>

VARIABLES
    query,    \* the storage query of the getCalculatedNumbers in progress
    sb,       \* the SamplesBuffer handed to preprocess()
    DSamples  \* what preprocess() returned: the size of each DSample, in order

varsQ == <<query, sb, DSamples>>

VARIABLES
    cfg       \* the configuration a host is constructed under, and how far that got

varsC == <<cfg>>

VARIABLES
    fan,      \* function_fanout: its position, its locals and its struct fanout_state
    fenv      \* what surrounds the call: the hosts that have the function, the
              \* clock, the cancellation, the calls dispatched, and their history

varsF == <<fan, fenv>>

VARIABLES
    cbuf,     \* a CircularBuffer<int>: Buffer, MaxSize, Head, Tail, Full
    cbh       \* history: the items pushed and not popped yet, oldest first, what
              \* the last pop returned and what it had to return, and the counts

varsB == <<cbuf, cbh>>

VARIABLES
    Dimensions,   \* DimensionContainer::Dimensions: name -> the Samples of the Dimension
    oh            \* history: the sample the last popSample returned and the
                  \* smallest TimePoint its dimension held before the call

varsO == <<Dimensions, oh>>

VARIABLES
    ad,       \* an AnomalyDetector (AfterT, BeforeT), the anomaly bit vector of the
              \* dimension asked about, and the arguments MinSize and MinRate
    AEV       \* what getAnomalyEvents returned: pairs <<first, second>>

varsA == <<ad, AEV>>

VARIABLES
    HostMutex,  \* Host::Mutex (std::mutex): the threads that hold it
    call,       \* per thread: the call of forEachDimension, addDimension or
                \* removeDimension it is in, how far it got, and its locals
    mhist       \* history: the dimensions whose removeDimension returned last,
                \* and what the sweeps met

varsM == <<HostMutex, call, mhist>>

VARIABLES
    dc        \* the members UpdateEvery and LastCollectedTime of a
              \* DimensionContainer, how its last process() ended, and
              \* whether the build compiles assert() out

varsP == <<dc>>

varsY == <<varsM, varsP>>

varsX == <<varsC, varsF, varsB, varsO, varsA>>

vars == <<varsW, varsD, varsH, varsT, varsQ, varsX, varsY>>

(***************************************************************************)
(* RollingBitCounter                                                       *)
(***************************************************************************)

\* RollingBitCounter(Capacity): V(Capacity, 0), NumSetBits(0), N(0).
\* V[i + 1] is the C++ V[i].
RollingBitCounter(Capacity) ==
    [V |-> [i \in 1..Capacity |-> 0], NumSetBits |-> 0, N |-> 0]

isFilled(rbc) == rbc.N >= Len(rbc.V)

numSetBits(rbc) == rbc.NumSetBits

size(rbc) == IF rbc.N < Len(rbc.V) THEN rbc.N ELSE Len(rbc.V)

start_zero(rbc) == 0

start(rbc) == IF rbc.N <= Len(rbc.V) THEN 0 ELSE rbc.N % Len(rbc.V)

\* getBuffer(): the bits of the window, oldest first.
getBuffer(rbc) ==
    [k \in 1..size(rbc) |-> rbc.V[((start(rbc) + k - 1) % Len(rbc.V)) + 1]]

RollingBitCounter_insert_noevict(rbc, Bit) ==
    [V          |-> [rbc.V EXCEPT ![(rbc.N % Len(rbc.V)) + 1] = Bit],
     NumSetBits |-> rbc.NumSetBits + (IF Bit = 1 THEN 1 ELSE 0),
     N          |-> rbc.N + 1]

\* void RollingBitCounter::insert(bool Bit)
RollingBitCounter_insert(rbc, Bit) ==
    LET evicted == IF rbc.N >= Len(rbc.V)
                   THEN (IF rbc.V[start(rbc) + 1] = 1 THEN 1 ELSE 0)
                   ELSE 0
        added   == IF Bit = 1 THEN 1 ELSE 0
    IN  [V          |-> [rbc.V EXCEPT ![(rbc.N % Len(rbc.V)) + 1] = Bit],
         NumSetBits |-> rbc.NumSetBits - evicted + added,
         N          |-> rbc.N + 1]

(***************************************************************************)
(* RollingBitWindow                                                        *)
(***************************************************************************)

NotFilled      == "NotFilled"
BelowThreshold == "BelowThreshold"
AboveThreshold == "AboveThreshold"

State == {NotFilled, BelowThreshold, AboveThreshold}

\* The handlers of the edges; each yields the new CurrLength.
onRoundtripNotFilled(CurrLength, MinLength) == CurrLength + 1

onRoundtripBelowThreshold(CurrLength, MinLength) == MinLength

onRoundtripAboveThreshold_stay(CurrLength, MinLength) == CurrLength

onRoundtripAboveThreshold(CurrLength, MinLength) == CurrLength + 1

onNotFilledToBelowThreshold(CurrLength, MinLength) == MinLength

onNotFilledToAboveThreshold(CurrLength, MinLength) == CurrLength + 1

onBelowToAboveThreshold_incr(CurrLength, MinLength) == CurrLength + 1

onBelowToAboveThreshold(CurrLength, MinLength) == MinLength

onAboveToBelowThreshold_keep(CurrLength, MinLength) == CurrLength

onAboveToBelowThreshold(CurrLength, MinLength) == MinLength

\* std::map<Edge, Action> EdgeActions: the edges that have a handler.
EdgeActions ==
    { <<NotFilled, NotFilled>>, <<BelowThreshold, BelowThreshold>>,
      <<AboveThreshold, AboveThreshold>>, <<NotFilled, BelowThreshold>>,
      <<NotFilled, AboveThreshold>>, <<BelowThreshold, AboveThreshold>>,
      <<AboveThreshold, BelowThreshold>> }

\* (this->*A)(E.first, Bit) for the handler A = EdgeActions[E].
EdgeAction(E, CurrLength, MinLength) ==
    CASE E = <<NotFilled, NotFilled>>           -> onRoundtripNotFilled(CurrLength, MinLength)
      [] E = <<BelowThreshold, BelowThreshold>> -> onRoundtripBelowThreshold(CurrLength, MinLength)
      [] E = <<AboveThreshold, AboveThreshold>> -> onRoundtripAboveThreshold(CurrLength, MinLength)
      [] E = <<NotFilled, BelowThreshold>>      -> onNotFilledToBelowThreshold(CurrLength, MinLength)
      [] E = <<NotFilled, AboveThreshold>>      -> onNotFilledToAboveThreshold(CurrLength, MinLength)
      [] E = <<BelowThreshold, AboveThreshold>> -> onBelowToAboveThreshold(CurrLength, MinLength)
      [] E = <<AboveThreshold, BelowThreshold>> -> onAboveToBelowThreshold(CurrLength, MinLength)

\* RollingBitWindow(MinLength, SetBitsThreshold)
RollingBitWindow(MinLength, SetBitsThreshold) ==
    [MinLength        |-> MinLength,
     SetBitsThreshold |-> SetBitsThreshold,
     CurrState        |-> NotFilled,
     CurrLength       |-> 0,
     PrevLength       |-> 0,
     RBC              |-> RollingBitCounter(MinLength)]

SwitchCurrState_le(CurrState, rbc, SetBitsThreshold) ==
    CASE CurrState = NotFilled ->
            IF isFilled(rbc)
            THEN (IF numSetBits(rbc) < SetBitsThreshold
                  THEN BelowThreshold ELSE AboveThreshold)
            ELSE NotFilled
      [] CurrState = BelowThreshold ->
            IF numSetBits(rbc) >= SetBitsThreshold
            THEN AboveThreshold ELSE CurrState
      [] CurrState = AboveThreshold ->
            IF numSetBits(rbc) <= SetBitsThreshold
            THEN BelowThreshold ELSE CurrState

\* The switch (CurrState) of RollingBitWindow::insert: the new CurrState,
\* given the counter after RBC.insert(Bit).
SwitchCurrState(CurrState, rbc, SetBitsThreshold) ==
    CASE CurrState = NotFilled ->
            IF isFilled(rbc)
            THEN (IF numSetBits(rbc) < SetBitsThreshold
                  THEN BelowThreshold ELSE AboveThreshold)
            ELSE NotFilled
      [] CurrState = BelowThreshold ->
            IF numSetBits(rbc) >= SetBitsThreshold
            THEN AboveThreshold ELSE CurrState
      [] CurrState = AboveThreshold ->
            IF numSetBits(rbc) < SetBitsThreshold
            THEN BelowThreshold ELSE CurrState

RollingBitWindow_insert_after(w, Bit) ==
    LET rbc == RollingBitCounter_insert(w.RBC, Bit)
        to  == SwitchCurrState(w.CurrState, rbc, w.SetBitsThreshold)
        E   == <<w.CurrState, to>>
        len == IF E \in EdgeActions
               THEN EdgeAction(E, w.CurrLength, w.MinLength)
               ELSE w.CurrLength
    IN  [W      |-> [w EXCEPT !.PrevLength = w.CurrLength, !.RBC = rbc,
                              !.CurrState = to, !.CurrLength = len],
         E      |-> E,
         Length |-> len]

\* std::pair<Edge, size_t> RollingBitWindow::insert(bool Bit):
\* W is the window after the call, <<E, Length>> the pair returned.
RollingBitWindow_insert(w, Bit) ==
    LET rbc == RollingBitCounter_insert(w.RBC, Bit)
        to  == SwitchCurrState(w.CurrState, rbc, w.SetBitsThreshold)
        E   == <<w.CurrState, to>>
        len == IF E \in EdgeActions
               THEN EdgeAction(E, w.CurrLength, w.MinLength)
               ELSE w.CurrLength
    IN  [W      |-> [w EXCEPT !.PrevLength = w.CurrLength, !.RBC = rbc,
                              !.CurrState = to, !.CurrLength = len],
         E      |-> E,
         Length |-> w.CurrLength]


(***************************************************************************)
(* Dimension: train() and predict()                                        *)
(***************************************************************************)

\* enum class MLError
Success           == "Success"
TryLockFailed     == "TryLockFailed"
MissingData       == "MissingData"
ShouldNotTrainNow == "ShouldNotTrainNow"
NoModel           == "NoModel"

\* Cfg.TrainEvery, in ticks of the clock.
TrainEvery == 1
\* MinN and MaxN of train(): Cfg.MinTrainSecs and Cfg.TrainSecs over updateEvery().
TrainMinN == 2
TrainMaxN == 10
\* Cfg.DiffN, Cfg.SmoothN, Cfg.LagN.
DiffN == 1
SmoothN == 3
LagN == 5
\* Cfg.AnomalyScoreThreshold, and the values KM.anomalyScore() is let to return.
AnomalyScoreThreshold == 1
Scores == 0..2

TrainingThread  == "training"
DetectionThread == "detection"
Threads == {TrainingThread, DetectionThread}

\* TrainableDimension's members as constructed; LastTrainedAt{SteadyClock::now()}.
TrainableDimension(now) ==
    [LastTrainedAt |-> now, HasModel |-> FALSE, AnomalyScore |-> 0, AnomalyBit |-> FALSE]

try_lock_always(m) == TRUE

\* Lock.try_lock() on a std::mutex: succeeds iff no thread holds it.
try_lock(m) == m = "free"

train_nostamp(d, now, N) ==
    IF (d.LastTrainedAt + TrainEvery) >= now
    THEN [D |-> d, Err |-> ShouldNotTrainNow]
    ELSE IF N < TrainMinN
         THEN [D |-> d, Err |-> MissingData]
         ELSE [D |-> [d EXCEPT !.HasModel = TRUE], Err |-> Success]

\* train() from the successful try_lock to its return statement: N is the
\* number of values getCalculatedNumbers(MinN, MaxN) comes back with.
\* Yields the dimension and the MLError returned.
train(d, now, N) ==
    IF (d.LastTrainedAt + TrainEvery) >= now
    THEN [D |-> d, Err |-> ShouldNotTrainNow]
    ELSE LET d1 == [d EXCEPT !.LastTrainedAt = now]
         IN  IF N < TrainMinN
             THEN [D |-> d1, Err |-> MissingData]
             ELSE [D |-> [d1 EXCEPT !.HasModel = TRUE], Err |-> Success]

\* getCalculatedNumbers(MinN, MaxN) on a dimension whose storage holds avail
\* samples in the window asked for, all of them existing: the loop stops
\* when the query is finished or at Idx == MaxN; P.second is TotalValues.
TotalValues(MaxN, avail) == IF avail < MaxN THEN avail ELSE MaxN

predict_oneless(d, N, Score) ==
    IF ~d.HasModel
    THEN [D |-> d, Err |-> NoModel, Bit |-> d.AnomalyBit]
    ELSE IF N # DiffN + SmoothN + LagN - 1
    THEN [D |-> d, Err |-> MissingData, Bit |-> d.AnomalyBit]
    ELSE LET bit == Score >= AnomalyScoreThreshold
         IN  [D   |-> [d EXCEPT !.AnomalyScore = Score, !.AnomalyBit = bit],
              Err |-> Success, Bit |-> bit]

predict_gt(d, N, Score) ==
    IF ~d.HasModel
    THEN [D |-> d, Err |-> NoModel, Bit |-> d.AnomalyBit]
    ELSE IF N # DiffN + SmoothN + LagN
    THEN [D |-> d, Err |-> MissingData, Bit |-> d.AnomalyBit]
    ELSE LET bit == Score > AnomalyScoreThreshold
         IN  [D   |-> [d EXCEPT !.AnomalyScore = Score, !.AnomalyBit = bit],
              Err |-> Success, Bit |-> bit]

predict_MissingData_clears(d, N, Score) ==
    IF ~d.HasModel
    THEN [D |-> d, Err |-> NoModel, Bit |-> d.AnomalyBit]
    ELSE IF N # DiffN + SmoothN + LagN
    THEN [D |-> [d EXCEPT !.AnomalyBit = FALSE], Err |-> MissingData, Bit |-> FALSE]
    ELSE LET bit == Score >= AnomalyScoreThreshold
         IN  [D   |-> [d EXCEPT !.AnomalyScore = Score, !.AnomalyBit = bit],
              Err |-> Success, Bit |-> bit]

\* predict() from the successful try_lock to its return statement: N is the
\* number of values getCalculatedNumbers(N, N) comes back with, Score the
\* value of KM.anomalyScore(SB).  Yields the dimension and the pair returned.
predict(d, N, Score) ==
    IF ~d.HasModel
    THEN [D |-> d, Err |-> NoModel, Bit |-> d.AnomalyBit]
    ELSE IF N # DiffN + SmoothN + LagN
    THEN [D |-> d, Err |-> MissingData, Bit |-> d.AnomalyBit]
    ELSE LET bit == Score >= AnomalyScoreThreshold
         IN  [D   |-> [d EXCEPT !.AnomalyScore = Score, !.AnomalyBit = bit],
              Err |-> Success, Bit |-> bit]

predict_TryLockFailed_false(d) == [Err |-> TryLockFailed, Bit |-> FALSE]

\* predict() when its try_lock fails: return { MLError::TryLockFailed, AnomalyBit }.
predict_TryLockFailed(d) == [Err |-> TryLockFailed, Bit |-> d.AnomalyBit]

NoResult == [Err |-> "none", Bit |-> FALSE]

ParkD ==
    /\ Mutex = "free"
    /\ dim = TrainableDimension(0)
    /\ pc = [t \in Threads |-> "idle"]
    /\ res = [t \in Threads |-> NoResult]
    /\ Now = 0
    /\ clock = 0
    /\ trained = <<>>
    /\ trainN = 0
    /\ predictN = 0

(***************************************************************************)
(* DetectableDimension and Host                                            *)
(***************************************************************************)

\* Cfg.ADWindowSize and Cfg.ADWindowRateThreshold (a fraction).
ADWindowSize == 1
ADWindowRateThreshold == [num |-> 1, den |-> 1]
\* Cfg.AnomalyRateThreshold and Cfg.ADUnitRateThreshold (fractions).
AnomalyRateThreshold == [num |-> 1, den |-> 2]
ADUnitRateThreshold == [num |-> 1, den |-> 2]

\* The dimensions (RRDDIM keys) the storage layer announces to the host.
DimIds == {1, 2}

\* A double that is the quotient of two counts is kept as the fraction
\* [num, den]; den = 0 with num > 0 is the double +inf.
Fraction(n, d) == [num |-> n, den |-> d]

\* a >= b on such doubles (the denominators are never negative).
GE(a, b) == a.num * b.den >= b.num * a.den

\* a < b on such doubles.
LT(a, b) == a.num * b.den < b.num * a.den

\* static_cast<size_t>(Cfg.ADWindowSize * Cfg.ADWindowRateThreshold): the
\* conversion of a non-negative double to size_t drops the fraction.
HostSetBitsThresholdOf(W, r) == (W * r.num) \div r.den

HostSetBitsThreshold == HostSetBitsThresholdOf(ADWindowSize, ADWindowRateThreshold)

\* A Dimension as constructed: TrainableDimension's members, and
\* DetectableDimension's RBC{Cfg.DiffN} and BitCounter{0}.
Dimension(now) ==
    [LastTrainedAt |-> now, HasModel |-> FALSE, AnomalyScore |-> 0,
     AnomalyBit |-> FALSE, RBC |-> RollingBitCounter(DiffN), BitCounter |-> 0]

\* bool DetectableDimension::detect(), with the inputs of its predict().
detect(d, N, Score) ==
    LET r   == predict(d, N, Score)
        bit == IF r.Bit THEN 1 ELSE 0
    IN  [D   |-> [r.D EXCEPT !.BitCounter = @ + bit,
                             !.RBC = RollingBitCounter_insert(@, bit)],
         Bit |-> bit]

reset_keep(d) == d

\* void DetectableDimension::reset()
reset(d) == [d EXCEPT !.BitCounter = numSetBits(d.RBC)]

\* double DetectableDimension::anomalyRate(size_t WindowLength)
anomalyRate(d, WindowLength) ==
    [Rate |-> Fraction(d.BitCounter, WindowLength),
     D    |-> [d EXCEPT !.BitCounter = numSetBits(d.RBC)]]

\* The keys of a std::map in iteration order (ascending).
RECURSIVE MapOrder(_)
MapOrder(S) ==
    IF S = {} THEN <<>>
    ELSE LET m == CHOOSE x \in S : \A y \in S : x <= y
         IN  <<m>> \o MapOrder(S \ {m})

\* operator< of std::pair<double, std::string>.
PairLess(a, b) == LT(a[1], b[1]) \/ (~LT(b[1], a[1]) /\ a[2] < b[2])

\* std::sort(begin, end): ascending.
RECURSIVE SortInsert(_, _)
SortInsert(s, x) ==
    IF s = <<>> THEN <<x>>
    ELSE IF PairLess(x, Head(s)) THEN <<x>> \o s
    ELSE <<Head(s)>> \o SortInsert(Tail(s), x)

RECURSIVE std_sort(_)
std_sort(s) == IF s = <<>> THEN <<>> ELSE SortInsert(std_sort(Tail(s)), Head(s))

\* std::reverse(begin, end)
RECURSIVE std_reverse(_)
std_reverse(s) == IF s = <<>> THEN <<>> ELSE Append(std_reverse(Tail(s)), Head(s))

Sorted_ascending(s) == std_sort(s)

\* std::sort followed by std::reverse, as detectOnce orders AnomalousUnits.
Sorted(s) == std_reverse(std_sort(s))

\* trainOne's forEachDimension: train the dimensions of order, one after
\* the other, and stop at the first that returns Success.
RECURSIVE trainOne(_, _, _, _)
trainOne(ds, order, now, Ns) ==
    IF order = <<>> THEN ds
    ELSE LET d == Head(order)
             r == train(ds[d], now, Ns[d])
             ds1 == [ds EXCEPT ![d] = r.D]
         IN  IF r.Err = Success THEN ds1
             ELSE trainOne(ds1, Tail(order), now, Ns)

\* The second forEachDimension of detectOnce: AnomalousUnits, in map order.
RECURSIVE AnomalousUnits_all(_, _, _)
AnomalousUnits_all(ds, order, WindowLength) ==
    IF order = <<>> THEN <<>>
    ELSE LET d == Head(order)
             DimAnomalyRate == anomalyRate(ds[d], WindowLength).Rate
             rest == AnomalousUnits_all(ds, Tail(order), WindowLength)
         IN  <<<<DimAnomalyRate, d>>>> \o rest

RECURSIVE AnomalousUnits(_, _, _)
AnomalousUnits(ds, order, WindowLength) ==
    IF order = <<>> THEN <<>>
    ELSE LET d == Head(order)
             DimAnomalyRate == anomalyRate(ds[d], WindowLength).Rate
             rest == AnomalousUnits(ds, Tail(order), WindowLength)
         IN  IF LT(DimAnomalyRate, ADUnitRateThreshold) THEN rest
             ELSE <<<<DimAnomalyRate, d>>>> \o rest

\* DB.insertAnomaly("AD1", 1, uuid, after, before, payload)
insertAnomaly(db, after, before, payload) ==
    Append(db, [after |-> after, before |-> before, payload |-> payload])

NoEdge == <<"none", "none">>

NoLocals == [E |-> NoEdge, WindowLength |-> 0, ResetBitCounter |-> FALSE,
             NumTotalDimensions |-> 0, NumAnomalousDimensions |-> 0]

\* What the model remembers of the ticks: the dimensions the first sweep of
\* the tick visited and found anomalous, the rates the second sweep computed,
\* the size of the store when the tick began, and for every dimension the
\* value of its detect() in each tick so far (0 in a tick that did not visit
\* it), the prev_length of every falling edge so far, and the size of
\* AnomalousUnits in every event built so far.
NoHist == [visited |-> {}, anomalous |-> {}, rates |-> <<>>, db0 |-> 0,
           bits |-> [d \in DimIds |-> <<>>], falls |-> <<>>, kept |-> <<>>]

ParkH ==
    /\ DimensionsMap = {}
    /\ dims = [d \in DimIds |-> Dimension(0)]
    /\ NumDimensions = 0
    /\ hRBW = RollingBitWindow(ADWindowSize, HostSetBitsThreshold)
    /\ AnomalyRate = Fraction(0, 1)
    /\ DB = <<>>
    /\ dpc = "idle"
    /\ loc = NoLocals
    /\ svc = [d \in DimIds |-> "out"]
    /\ ticks = 0
    /\ hist = NoHist

\* No query is open and no buffer has been preprocessed.
NoQuery == [pc |-> "none", MaxN |-> 0, Idx |-> 0, left |-> 0, inits |-> 0, finals |-> 0]

NoBuffer == [NumSamples |-> 0, NumDimsPerSample |-> 0, DiffN |-> 0, SmoothN |-> 0,
             LagN |-> 0, Preprocessed |-> FALSE]

ParkQ ==
    /\ query = NoQuery
    /\ sb = NoBuffer
    /\ DSamples = <<>>

\* No host is being configured.
ParkC == cfg = [pc |-> "none", ADWindowSize |-> ADWindowSize,
                ADWindowRateThreshold |-> ADWindowRateThreshold]

\* function_fanout has not been called.
NoFanout ==
    [pc |-> "none", timeout_s |-> 0, total |-> 0, completed |-> 0, results |-> <<>>,
     idx |-> 0, host |-> 0, deadline_ut |-> 0, i |-> 0, nodes |-> <<>>, code |-> 0,
     header |-> FALSE, nodes_completed |-> 0, freed |-> FALSE]

NoFanoutEnv ==
    [available |-> {}, changes |-> 0, now |-> 0, cancelled |-> FALSE,
     running |-> {}, dispatched |-> <<>>, answered |-> <<>>, released |-> {}]

ParkF ==
    /\ fan = NoFanout
    /\ fenv = NoFanoutEnv

\* No CircularBuffer is in use.
ParkB ==
    /\ cbuf = [Buffer |-> <<>>, MaxSize |-> 0, Head |-> 0, Tail |-> 0, Full |-> FALSE]
    /\ cbh = [fifo |-> <<>>, popped |-> 0, oldest |-> 0, pushes |-> 0, pops |-> 0]

\* No sample has been popped.
NoPop == [popped |-> [Value |-> 0, TimePoint |-> 0], least |-> 0]

\* The DimensionContainer as constructed: no dimension.
ParkO ==
    /\ Dimensions = << >>
    /\ oh = NoPop

\* No AnomalyDetector is in use.
ParkA ==
    /\ ad = [pc |-> "none", AfterT |-> 0, BeforeT |-> 0, ABV |-> <<>>, MinSize |-> 0,
             MinRate |-> [num |-> 0, den |-> 1]]
    /\ AEV = <<>>

ParkX == ParkC /\ ParkF /\ ParkB /\ ParkO /\ ParkA

\* absl::nullopt, and an optional that holds a value.
nullopt == [has_value |-> FALSE, value |-> 0]
optional(v) == [has_value |-> TRUE, value |-> v]

\* No thread is in a call on the host's dimension map.
NoCall == [pc |-> "idle", fn |-> "none", D |-> 0, snap |-> <<>>, todo |-> <<>>,
           seen |-> {}]

MapThreads == {"training", "detection", "storage"}

\* History: the dimensions whose removeDimension has returned since they
\* were last added, whether a sweep called its callback on one of them,
\* the removals that had to wait for a sweep, and the calls made so far.
NoMapHist == [gone |-> {}, stale |-> FALSE, waited |-> {}, calls |-> 0]

ParkM ==
    /\ HostMutex = {}
    /\ call = [t \in MapThreads |-> NoCall]
    /\ mhist = NoMapHist

\* A DimensionContainer as constructed: neither optional holds a value.
NoProcess == [UpdateEvery |-> nullopt, LastCollectedTime |-> nullopt, pc |-> "none",
              NDEBUG |-> FALSE]

ParkP == dc = NoProcess

ParkY == ParkM /\ ParkP

\* The threads of the host are not started and nobody stops them.
ParkT ==
    /\ netdata_exit = FALSE
    /\ tpc = "none"
    /\ lpc = "none"
    /\ jpc = "none"
    /\ nap = 0
    /\ justTrained = {}

(***************************************************************************)
(* SpecRBW: a window built with any MinLength in 1..MaxMinLength and any   *)
(* threshold in 0..MinLength is fed MaxInserts arbitrary bits.             *)
(***************************************************************************)

\* The bit stream of TEST(RollingBitCounterTest) and TEST(RollingBitWindowTest).
StreamS1 == <<0, 0, 1, 1, 0, 1, 0, 0, 0, 1, 0, 1, 0, 0>>

NoReturn == [E |-> <<"none", "none">>, Length |-> 0]

\* The last k elements of s (all of s when it is shorter).
LastBits(s, k) ==
    IF Len(s) <= k THEN s ELSE SubSeq(s, Len(s) - k + 1, Len(s))

RECURSIVE PopCount(_)
PopCount(s) == IF s = <<>> THEN 0 ELSE (IF Head(s) = 1 THEN 1 ELSE 0) + PopCount(Tail(s))

ParkW ==
    /\ RBW = RollingBitWindow(1, 0)
    /\ ret = NoReturn
    /\ pre = RollingBitWindow(1, 0)
    /\ recent = <<>>
    /\ aaRun = 0
    /\ s1pos = 0
    /\ falls = <<>>

InitRBW ==
    /\ ParkD /\ ParkY /\ ParkX
    /\ ParkH
    /\ ParkT
    /\ ParkQ
    /\ \E MinLength \in 1..MaxMinLength :
         \E SetBitsThreshold \in 0..MinLength :
            /\ RBW = RollingBitWindow(MinLength, SetBitsThreshold)
            /\ pre = RollingBitWindow(MinLength, SetBitsThreshold)
    /\ ret = NoReturn
    /\ recent = <<>>
    /\ aaRun = 0
    /\ s1pos = 0
    /\ falls = <<>>

\* One call of RBW.insert(Bit), with the history variables following it.
Insert ==
    /\ RBW.RBC.N < MaxInserts
    /\ \E Bit \in {0, 1} :
         LET P  == RollingBitWindow_insert(RBW, Bit)
             on == s1pos # -1 /\ s1pos < Len(StreamS1) /\ StreamS1[s1pos + 1] = Bit
         IN  /\ RBW' = P.W
             /\ ret' = [E |-> P.E, Length |-> P.Length]
             /\ pre' = RBW
             /\ recent' = LastBits(Append(recent, Bit), RBW.MinLength + 1)
             /\ aaRun' = IF P.E = <<AboveThreshold, AboveThreshold>> THEN aaRun + 1
                         ELSE IF P.E[2] = AboveThreshold THEN 0
                         ELSE aaRun
             /\ s1pos' = IF on THEN s1pos + 1 ELSE -1
             /\ falls' = IF ~on THEN <<>>
                         ELSE IF P.E = <<AboveThreshold, BelowThreshold>>
                              THEN Append(falls, P.Length)
                              ELSE falls

NextRBW == Insert /\ UNCHANGED <<varsD, varsH, varsT, varsQ, varsX, varsY>>

SpecRBW == InitRBW /\ [][NextRBW]_vars

(***************************************************************************)
(* Properties of SpecRBW                                                   *)
(***************************************************************************)

\* The bits the counter should hold: the last min(n, MinLength) inserted.
TrueWindow == LastBits(recent, RBW.MinLength)

\* The full window before the last insert, when there was one.
TruePrevWindow == SubSeq(recent, 1, RBW.MinLength)

Inserted == ret # NoReturn

FallingEdge == ret.E = <<AboveThreshold, BelowThreshold>>

\* C2: every insert follows the transition table of the window, on the
\* state, on the length and on the edge returned: from NotFilled to
\* NotFilled (length + 1) while fewer than MinLength bits were inserted, to
\* BelowThreshold (length = MinLength) when the window fills with popcount
\* < T, to AboveThreshold (length + 1) when it fills with popcount >= T;
\* from BelowThreshold to AboveThreshold iff popcount >= T, with length =
\* MinLength either way; from AboveThreshold to AboveThreshold (length + 1)
\* iff popcount >= T, else to BelowThreshold (length = MinLength).  The
\* popcount is that of the bits really inserted.
C2_TransitionTable ==
    Inserted =>
        LET M      == RBW.MinLength
            T      == RBW.SetBitsThreshold
            p      == PopCount(TrueWindow)
            filled == RBW.RBC.N >= M
            from   == pre.CurrState
            to     == RBW.CurrState
            len    == RBW.CurrLength
            old    == pre.CurrLength
        IN  /\ ret.E = <<from, to>>
            /\ from \in State /\ to \in State
            /\ from = NotFilled =>
                 IF ~filled THEN to = NotFilled /\ len = old + 1
                 ELSE IF p < T THEN to = BelowThreshold /\ len = M
                 ELSE to = AboveThreshold /\ len = old + 1
            /\ from = BelowThreshold =>
                 /\ to = (IF p >= T THEN AboveThreshold ELSE BelowThreshold)
                 /\ len = M
            /\ from = AboveThreshold =>
                 IF p >= T THEN to = AboveThreshold /\ len = old + 1
                 ELSE to = BelowThreshold /\ len = M

\* C2 witness: a window that left BelowThreshold for AboveThreshold.
C2_Witness ==
    /\ ret.E = <<BelowThreshold, AboveThreshold>>
    /\ RBW.CurrLength = RBW.MinLength
    /\ RBW.MinLength = 4

\* The lengths the test expects at the falling edges of StreamS1, MinLength 4.
S1Falls(T) ==
    CASE T = 2 -> <<7, 5>>
      [] T = 3 -> <<4>>
      [] OTHER -> <<>>

\* C3: the length returned with an (AboveThreshold, BelowThreshold) edge is
\* the length before that insert, and it is MinLength plus the number of
\* inserts that kept the window in AboveThreshold since it entered it; for
\* StreamS1 and MinLength 4 the lengths at the falling edges are <<7, 5>>
\* (T = 2), <<4>> (T = 3) and none (T = 4).
C3_FallingEdgeLength ==
    /\ FallingEdge =>
          /\ ret.Length = pre.CurrLength
          /\ ret.Length = RBW.MinLength + aaRun
    /\ (s1pos = Len(StreamS1) /\ RBW.MinLength = 4 /\ RBW.SetBitsThreshold \in 2..4) =>
          falls = S1Falls(RBW.SetBitsThreshold)

\* C3 witness: StreamS1 wholly inserted, T = 2, the last insert a falling
\* edge that closes a run of length 5.
C3_Witness ==
    /\ s1pos = Len(StreamS1) /\ RBW.MinLength = 4 /\ RBW.SetBitsThreshold = 2
    /\ FallingEdge /\ ret.Length = 5 /\ falls = <<7, 5>>

\* C4: the i-th insert returns the edge (AboveThreshold, BelowThreshold) if
\* and only if the popcount of bits [i - MinLength + 1, i] is below T and
\* there is a preceding full window [i - MinLength, i - 1] whose popcount
\* was at least T.
C4_FallingEdgeIff ==
    Inserted =>
        (FallingEdge <=>
            /\ RBW.RBC.N > RBW.MinLength
            /\ PopCount(TrueWindow) < RBW.SetBitsThreshold
            /\ PopCount(TruePrevWindow) >= RBW.SetBitsThreshold)

\* C4 witness: a falling edge where the window still holds a set bit.
C4_Witness ==
    /\ FallingEdge
    /\ PopCount(TrueWindow) = 2
    /\ RBW.SetBitsThreshold = 3

\* C5 as claimed: at the k-th insert of a run of (AboveThreshold,
\* AboveThreshold) edges the length returned by insert is MinLength + k.
C5_Original ==
    ret.E = <<AboveThreshold, AboveThreshold>> =>
        ret.Length = RBW.MinLength + aaRun

\* C5 as amended: at the k-th insert of a run of (AboveThreshold,
\* AboveThreshold) edges the length returned by insert is MinLength + k - 1
\* (the length before the insert), the length of the window after it is
\* MinLength + k, and from the second insert of the run on the returned
\* length is one more than the one returned by the insert before.
C5_LengthInRun ==
    ret.E = <<AboveThreshold, AboveThreshold>> =>
        /\ aaRun >= 1
        /\ ret.Length = RBW.MinLength + aaRun - 1
        /\ RBW.CurrLength = RBW.MinLength + aaRun
        /\ aaRun >= 2 => ret.Length = pre.PrevLength + 1

\* C5 witness: the third insert of a run.
C5_Witness ==
    /\ ret.E = <<AboveThreshold, AboveThreshold>>
    /\ aaRun = 3
    /\ ret.Length = RBW.MinLength + 2

\* numSetBits() after each bit of StreamS1, capacity 4 (the test's values).
S1NumSetBits == <<0, 0, 1, 2, 2, 3, 2, 1, 1, 1, 1, 2, 2, 1>>

\* C6: after every insert numSetBits() is the number of 1 bits among the
\* last min(n, C) inserted bits, and the buffer holds exactly those bits;
\* for capacity 4 and StreamS1 the successive values are S1NumSetBits.
C6_PopCount ==
    /\ numSetBits(RBW.RBC) = PopCount(TrueWindow)
    /\ getBuffer(RBW.RBC) = TrueWindow
    /\ (Len(RBW.RBC.V) = 4 /\ s1pos >= 1) =>
          numSetBits(RBW.RBC) = S1NumSetBits[s1pos]

\* C6 witness: capacity 4, StreamS1 wholly inserted, one bit set, after
\* set bits were evicted.
C6_Witness ==
    /\ Len(RBW.RBC.V) = 4 /\ s1pos = Len(StreamS1)
    /\ numSetBits(RBW.RBC) = 1
    /\ RBW.RBC.N > Len(RBW.RBC.V)

\* C31: after n inserts the state is NotFilled if and only if n < MinLength,
\* and then the length is n; in BelowThreshold the length is MinLength and
\* the popcount of the window is below T; in AboveThreshold the length is at
\* least MinLength and the popcount is at least T.  No insert enters
\* NotFilled from another state, and the length returned with a falling
\* edge is at least MinLength.
C31_StateInvariant ==
    LET n == RBW.RBC.N
        M == RBW.MinLength
        T == RBW.SetBitsThreshold
        p == PopCount(TrueWindow)
    IN  /\ RBW.CurrState \in State
        /\ (RBW.CurrState = NotFilled) <=> (n < M)
        /\ RBW.CurrState = NotFilled => RBW.CurrLength = n
        /\ RBW.CurrState = BelowThreshold => RBW.CurrLength = M /\ p < T
        /\ RBW.CurrState = AboveThreshold => RBW.CurrLength >= M /\ p >= T
        /\ (Inserted /\ RBW.CurrState = NotFilled) => pre.CurrState = NotFilled
        /\ FallingEdge => ret.Length >= M

\* C31 witness: a window of MinLength 3 that stayed above its threshold for
\* two more inserts fell below it, after ten inserts in all.
C31_Witness ==
    /\ FallingEdge /\ RBW.MinLength = 3 /\ ret.Length = 5
    /\ RBW.RBC.N = 10 /\ RBW.CurrLength = 3

(***************************************************************************)
(* SpecDim: one Dimension; the training thread calls train(Now) on it and  *)
(* the detection thread calls predict(), in any interleaving.  A call is   *)
(* three steps: the try_lock, the body, and the return that releases the   *)
(* unique_lock.                                                            *)
(***************************************************************************)

InitDim == ParkW /\ ParkD /\ ParkY /\ ParkX /\ ParkH /\ ParkT /\ ParkQ

\* SteadyClock advances.
Tick ==
    /\ clock < MaxClock
    /\ clock' = clock + 1
    /\ UNCHANGED <<Mutex, dim, pc, res, Now, trained, trainN, predictN,
                   varsW, varsH, varsT, varsQ, varsX,
                   varsY>>

\* trainOne(StartTP) calls D->train(Now): the try_lock of train().
TrainCall ==
    /\ pc[TrainingThread] = "idle"
    /\ Now' = clock
    /\ IF try_lock(Mutex)
       THEN /\ Mutex' = TrainingThread
            /\ pc' = [pc EXCEPT ![TrainingThread] = "locked"]
            /\ res' = [res EXCEPT ![TrainingThread] = NoResult]
       ELSE /\ res' = [res EXCEPT ![TrainingThread] = [Err |-> TryLockFailed, Bit |-> FALSE]]
            /\ UNCHANGED <<Mutex, pc>>
    /\ UNCHANGED <<dim, clock, trained, trainN, predictN, varsW, varsH,
                   varsT, varsQ, varsX, varsY>>

\* The body of train(), the lock held.
TrainBody ==
    /\ pc[TrainingThread] = "locked"
    /\ \E N \in 0..TrainMaxN :
         LET r == train(dim, Now, N)
         IN  /\ dim' = r.D
             /\ res' = [res EXCEPT ![TrainingThread] = [Err |-> r.Err, Bit |-> FALSE]]
             /\ trained' = IF r.Err = Success THEN Append(trained, Now) ELSE trained
             /\ trainN' = IF r.Err \in {Success, MissingData} THEN N ELSE trainN
    /\ pc' = [pc EXCEPT ![TrainingThread] = "return"]
    /\ UNCHANGED <<Mutex, Now, clock, predictN, varsW, varsH, varsT, varsQ,
                   varsX, varsY>>

\* train() returns: ~unique_lock releases the mutex.
TrainReturn ==
    /\ pc[TrainingThread] = "return"
    /\ Mutex' = "free"
    /\ pc' = [pc EXCEPT ![TrainingThread] = "idle"]
    /\ UNCHANGED <<dim, res, Now, clock, trained, trainN, predictN, varsW,
                   varsH, varsT, varsQ, varsX,
                   varsY>>

\* detect() calls predict(): the try_lock of predict().
PredictCall ==
    /\ pc[DetectionThread] = "idle"
    /\ IF try_lock(Mutex)
       THEN /\ Mutex' = DetectionThread
            /\ pc' = [pc EXCEPT ![DetectionThread] = "locked"]
            /\ res' = [res EXCEPT ![DetectionThread] = NoResult]
       ELSE /\ res' = [res EXCEPT ![DetectionThread] = predict_TryLockFailed(dim)]
            /\ UNCHANGED <<Mutex, pc>>
    /\ UNCHANGED <<dim, Now, clock, trained, trainN, predictN, varsW, varsH,
                   varsT, varsQ, varsX,
                   varsY>>

\* The body of predict(), the lock held.  The storage holds any number of
\* recent samples, one more than predict() asks for included.
PredictBody ==
    /\ pc[DetectionThread] = "locked"
    /\ \E avail \in 0..(DiffN + SmoothN + LagN + 1) : \E Score \in Scores :
         LET N == TotalValues(DiffN + SmoothN + LagN, avail)
             r == predict(dim, N, Score)
         IN  /\ dim' = r.D
             /\ res' = [res EXCEPT ![DetectionThread] = [Err |-> r.Err, Bit |-> r.Bit]]
             /\ predictN' = IF r.Err \in {Success, MissingData} THEN N ELSE predictN
    /\ pc' = [pc EXCEPT ![DetectionThread] = "return"]
    /\ UNCHANGED <<Mutex, Now, clock, trained, trainN, varsW, varsH, varsT,
                   varsQ, varsX,
                   varsY>>

\* predict() returns: ~unique_lock releases the mutex.
PredictReturn ==
    /\ pc[DetectionThread] = "return"
    /\ Mutex' = "free"
    /\ pc' = [pc EXCEPT ![DetectionThread] = "idle"]
    /\ UNCHANGED <<dim, res, Now, clock, trained, trainN, predictN, varsW,
                   varsH, varsT, varsQ, varsX,
                   varsY>>

NextDim ==
    \/ Tick
    \/ TrainCall
    \/ TrainBody
    \/ TrainReturn
    \/ PredictCall
    \/ PredictBody
    \/ PredictReturn

SpecDim == InitDim /\ [][NextDim]_vars

\* A thread is in the body of its call: between its successful try_lock
\* and the return of the call.
InBody(t) == pc[t] \in {"locked", "return"}

\* C1: train() and predict() on the same dimension never execute their
\* bodies at the same time: at most one thread is between a successful
\* try_lock of the dimension's mutex and the return of the call that took
\* it, and that thread is the one the mutex is held by.
C1_MutualExclusion ==
    /\ ~(InBody(TrainingThread) /\ InBody(DetectionThread))
    /\ \A t \in Threads : InBody(t) <=> Mutex = t

\* C1 witness: predict() was called while train() was in its body, and
\* came back with TryLockFailed.
C1_Witness ==
    /\ InBody(TrainingThread)
    /\ pc[DetectionThread] = "idle"
    /\ res[DetectionThread].Err = TryLockFailed

C15_TrainingsApart ==
    \A i, j \in 1..Len(trained) :
        i < j => trained[j] >= trained[i] + TrainEvery

\* C15 witness: two trainings of the dimension have succeeded.
C15_Witness == Len(trained) >= 2

\* C17: a train() or predict() that finds the dimension's mutex held by
\* another operation returns TryLockFailed in the same step, without
\* waiting, and leaves the model, LastTrainedAt, AnomalyScore and AnomalyBit
\* (and the mutex) as they were; predict() reports the cached bit.
C17_TryLockFailedNoEffect ==
    [][\A t \in Threads :
          ((pc[t] = "idle" /\ Mutex # "free" /\ res'[t] # res[t]) =>
              /\ res'[t].Err = TryLockFailed
              /\ pc' = pc
              /\ dim' = dim
              /\ Mutex' = Mutex
              /\ t = DetectionThread => res'[t].Bit = dim.AnomalyBit)]_vars

\* C17 witness: predict() met a train() in progress and reported the cached
\* bit, which was set.
C17_Witness ==
    /\ InBody(TrainingThread)
    /\ res[DetectionThread] = [Err |-> TryLockFailed, Bit |-> TRUE]

\* C23: a predict() that does not succeed changes neither score nor anomaly
\* bit and returns the cached bit: on a dimension without a model it returns
\* NoModel with bit false, and when not all required recent samples exist it
\* returns MissingData with the bit as it was before the call (a bit that
\* was set stays set).
C23_FailedPredictKeepsBit ==
    [][(res'[DetectionThread] # res[DetectionThread]
        /\ res'[DetectionThread] # NoResult
        /\ res'[DetectionThread].Err # Success) =>
           /\ dim'.AnomalyScore = dim.AnomalyScore
           /\ dim'.AnomalyBit = dim.AnomalyBit
           /\ res'[DetectionThread].Bit = dim.AnomalyBit
           /\ (pc[DetectionThread] = "locked" /\ ~dim.HasModel) =>
                 res'[DetectionThread] = [Err |-> NoModel, Bit |-> FALSE]
           /\ (pc[DetectionThread] = "locked" /\ dim.HasModel) =>
                 res'[DetectionThread] = [Err |-> MissingData, Bit |-> dim.AnomalyBit]]_vars

\* C23 witness: predict() on a dimension whose bit was set came back with
\* MissingData and the bit, and the bit is still set.
C23_Witness ==
    /\ pc[DetectionThread] = "return"
    /\ res[DetectionThread] = [Err |-> MissingData, Bit |-> TRUE]
    /\ dim.AnomalyBit
    /\ dim.AnomalyScore >= AnomalyScoreThreshold

\* C24: with the dimension lock free, train(now) fails with NotDue
\* (ShouldNotTrainNow) exactly when now < last_trained_at + TrainEvery; a
\* call with now = last_trained_at + TrainEvery is due and goes on to fetch
\* samples.
C24_NotDueIffBefore ==
    [][(pc[TrainingThread] = "locked" /\ pc'[TrainingThread] = "return") =>
          ((res'[TrainingThread].Err = ShouldNotTrainNow) <=>
              (Now < dim.LastTrainedAt + TrainEvery))]_vars

(***************************************************************************)
(* SpecHost: one Host.  The detection thread runs detectOnce, tick after   *)
(* tick; the training thread runs trainOne; the storage layer calls        *)
(* addDimension for each dimension it announces and removeDimension when   *)
(* it withdraws one (a withdrawn dimension is not announced again: a new   *)
(* RRDDIM is a new key).  Every block that holds Host::Mutex (the body of             *)
(* addDimension and of removeDimension up to the closing brace, and each   *)
(* forEachDimension) is one step; the update of the atomic NumDimensions   *)
(* after the block is a step of its own.  Inside a forEachDimension no     *)
(* other thread is in train() or predict() of a dimension of the host      *)
(* (they are called under the same Host::Mutex), so their try_lock         *)
(* succeeds.                                                               *)
(***************************************************************************)

\* What a predict() of the sweep may meet: a sample short, or all samples
\* and any score.
PredictInputs ==
    { [N |-> DiffN + SmoothN + LagN - 1, Score |-> 0] } \cup
    { [N |-> DiffN + SmoothN + LagN, Score |-> sc] : sc \in Scores }

\* What a train() of the sweep may meet: too few samples, or enough.
TrainInputs == {TrainMinN - 1, TrainMaxN}

InitHost == ParkW /\ ParkD /\ ParkY /\ ParkX /\ ParkH /\ ParkT /\ ParkQ

\* addDimension(D) of a new Dimension: the block under the lock.
AddDimensionInsert(d) ==
    /\ svc[d] = "out"
    /\ DimensionsMap' = DimensionsMap \cup {d}
    /\ dims' = [dims EXCEPT ![d] = Dimension(clock)]
    /\ svc' = [svc EXCEPT ![d] = "adding"]
    /\ UNCHANGED <<NumDimensions, hRBW, AnomalyRate, DB, dpc, loc, ticks, hist,
                   varsW, varsD, varsT, varsQ, varsX, varsY>>

\* addDimension(D): NumDimensions++ and return.
AddDimensionCount(d) ==
    /\ svc[d] = "adding"
    /\ NumDimensions' = NumDimensions + 1
    /\ svc' = [svc EXCEPT ![d] = "in"]
    /\ UNCHANGED <<DimensionsMap, dims, hRBW, AnomalyRate, DB, dpc, loc, ticks,
                   hist, varsW, varsD, varsT, varsQ, varsX, varsY>>

\* removeDimension(D) of a dimension that was added: the block under the lock.
RemoveDimensionErase(d) ==
    /\ svc[d] = "in"
    /\ DimensionsMap' = DimensionsMap \ {d}
    /\ dims' = [dims EXCEPT ![d] = Dimension(0)]
    /\ svc' = [svc EXCEPT ![d] = "removing"]
    /\ UNCHANGED <<NumDimensions, hRBW, AnomalyRate, DB, dpc, loc, ticks, hist,
                   varsW, varsD, varsT, varsQ, varsX, varsY>>

\* removeDimension(D): NumDimensions-- and return.
RemoveDimensionCount(d) ==
    /\ svc[d] = "removing"
    /\ NumDimensions' = NumDimensions - 1
    /\ svc' = [svc EXCEPT ![d] = "gone"]
    /\ UNCHANGED <<DimensionsMap, dims, hRBW, AnomalyRate, DB, dpc, loc, ticks,
                   hist, varsW, varsD, varsT, varsQ, varsX, varsY>>

\* One trainOne(StartTP) of the training thread, StartTP = SteadyClock::now().
TrainOne ==
    /\ DimensionsMap # {}
    /\ \E Ns \in [DimensionsMap -> TrainInputs] :
         dims' = trainOne(dims, MapOrder(DimensionsMap), clock, Ns)
    /\ UNCHANGED <<DimensionsMap, NumDimensions, hRBW, AnomalyRate, DB, dpc,
                   loc,
                   svc, ticks, hist, varsW, varsD, varsT, varsQ, varsX,
                   varsY>>

\* detectOnce up to its first forEachDimension: RBW.insert, the edge, the
\* load of NumDimensions.
DetectOnceBegin ==
    /\ dpc = "idle"
    /\ LET P == RollingBitWindow_insert(hRBW,
                    IF GE(AnomalyRate, AnomalyRateThreshold) THEN 1 ELSE 0)
       IN  /\ hRBW' = P.W
           /\ loc' = [E |-> P.E,
                      WindowLength |-> P.Length,
                      ResetBitCounter |-> P.E = <<BelowThreshold, BelowThreshold>>,
                      NumTotalDimensions |-> NumDimensions,
                      NumAnomalousDimensions |-> 0]
    /\ dpc' = "sweep"
    /\ ticks' = ticks + 1
    /\ hist' = [NoHist EXCEPT
                  !.db0 = Len(DB), !.bits = hist.bits, !.kept = hist.kept,
                  !.falls = IF loc'.E = <<AboveThreshold, BelowThreshold>>
                            THEN Append(hist.falls, loc'.WindowLength)
                            ELSE hist.falls]
    /\ UNCHANGED <<DimensionsMap, dims, NumDimensions, AnomalyRate, DB, svc,
                   varsW, varsD, varsQ, varsX, varsY>>

\* The detection thread calls detectOnce once more.
DetectBegin == ticks < MaxTicks /\ DetectOnceBegin /\ UNCHANGED varsT

\* detectOnce: the first forEachDimension (reset and detect of every
\* dimension of the map), the new AnomalyRate, and the return when the
\* edge opens no event.
DetectSweep ==
    /\ dpc = "sweep"
    /\ \E in \in [DimensionsMap -> PredictInputs] :
         LET r == [d \in DimensionsMap |->
                      detect(IF loc.ResetBitCounter THEN reset(dims[d]) ELSE dims[d],
                             in[d].N, in[d].Score)]
             anomalous == {d \in DimensionsMap : r[d].Bit = 1}
             NumAnomalousDimensions == Cardinality(anomalous)
         IN  /\ dims' = [d \in DimIds |-> IF d \in DimensionsMap THEN r[d].D ELSE dims[d]]
             /\ AnomalyRate' = IF NumAnomalousDimensions # 0
                               THEN Fraction(NumAnomalousDimensions, loc.NumTotalDimensions)
                               ELSE Fraction(0, 1)
             /\ loc' = [loc EXCEPT !.NumAnomalousDimensions = NumAnomalousDimensions]
             /\ hist' = [hist EXCEPT
                           !.visited = DimensionsMap,
                           !.anomalous = anomalous,
                           !.bits = [d \in DimIds |->
                                       Append(@[d], IF d \in DimensionsMap
                                                    THEN r[d].Bit ELSE 0)]]
    /\ dpc' = IF loc.E = <<AboveThreshold, BelowThreshold>> THEN "event" ELSE "idle"
    /\ UNCHANGED <<DimensionsMap, NumDimensions, hRBW, DB, svc, ticks, varsW,
                   varsD, varsT, varsQ, varsX,
                   varsY>>

\* detectOnce on a new anomaly event: the second forEachDimension, the
\* sort and DB.insertAnomaly.
DetectEvent ==
    /\ dpc = "event"
    /\ LET order == MapOrder(DimensionsMap)
           units == AnomalousUnits(dims, order, loc.WindowLength)
       IN  /\ dims' = [d \in DimIds |->
                         IF d \in DimensionsMap
                         THEN anomalyRate(dims[d], loc.WindowLength).D ELSE dims[d]]
           /\ DB' = IF Len(units) = 0 THEN DB
                    ELSE insertAnomaly(DB, clock - loc.WindowLength, clock, Sorted(units))
           /\ hist' = [hist EXCEPT
                         !.kept = Append(@, Len(units)),
                         !.rates = [d \in DimensionsMap |->
                                       anomalyRate(dims[d], loc.WindowLength).Rate]]
    /\ dpc' = "idle"
    /\ UNCHANGED <<DimensionsMap, NumDimensions, hRBW, AnomalyRate, loc, svc,
                   ticks,
                   varsW, varsD, varsT, varsQ, varsX, varsY>>

\* SteadyClock and the wall clock advance.
HostTick ==
    /\ clock < MaxHostClock
    /\ clock' = clock + 1
    /\ UNCHANGED <<Mutex, dim, pc, res, Now, trained, trainN, predictN,
                   varsW, varsH, varsT, varsQ, varsX,
                   varsY>>

NextHost ==
    \/ HostTick
    \/ \E d \in DimIds : AddDimensionInsert(d)
    \/ \E d \in DimIds : AddDimensionCount(d)
    \/ \E d \in DimIds : RemoveDimensionErase(d)
    \/ \E d \in DimIds : RemoveDimensionCount(d)
    \/ TrainOne
    \/ DetectBegin
    \/ DetectSweep
    \/ DetectEvent

SpecHost == InitHost /\ [][NextHost]_vars

(***************************************************************************)
(* Properties of SpecHost                                                  *)
(***************************************************************************)

\* A detectOnce has returned and no other has begun.
AfterDetectOnce == dpc = "idle" /\ ticks > 0

\* Records appended to the store since the last detectOnce began.
Appended == Len(DB) - hist.db0

\* The dimensions the second sweep found at or above ADUnitRateThreshold.
Qualifying == {d \in DOMAIN hist.rates : GE(hist.rates[d], ADUnitRateThreshold)}

\* C7: immediately after every detectOnce, host_rate equals the number of
\* dimensions whose detect() returned 1 in the tick's sweep divided by the
\* number of dimensions the sweep visited, and 0 when it visited none.
C7_HostRateIdentity ==
    AfterDetectOnce =>
        LET visited   == Cardinality(hist.visited)
            anomalous == Cardinality(hist.anomalous)
        IN  /\ AnomalyRate.den # 0
            /\ IF visited = 0 THEN AnomalyRate.num = 0
               ELSE AnomalyRate.num * visited = anomalous * AnomalyRate.den

\* C8: in every reachable state host_rate is a finite number in [0, 1].
C8_HostRateInUnitInterval ==
    /\ AnomalyRate.den > 0
    /\ 0 <= AnomalyRate.num
    /\ AnomalyRate.num <= AnomalyRate.den

\* C9 as claimed: a detection tick appends exactly one record if its edge
\* is (AboveThreshold, BelowThreshold) and none on any other edge.
C9_Original ==
    AfterDetectOnce =>
        Appended = (IF loc.E = <<AboveThreshold, BelowThreshold>> THEN 1 ELSE 0)

\* C9 as amended: a detection tick hands exactly one record to the store
\* if its edge is (AboveThreshold, BelowThreshold) and at least one
\* dimension of the host has anomaly_rate(prev_length) >= ADUnitRateThreshold;
\* otherwise (any other edge, or a falling edge on which no dimension
\* reaches the threshold) it hands none; nothing is appended before the
\* end of the tick.
C9_RecordIffEvent ==
    /\ AfterDetectOnce =>
          Appended = (IF loc.E = <<AboveThreshold, BelowThreshold>> /\ Qualifying # {}
                      THEN 1 ELSE 0)
    /\ dpc # "idle" => Appended = 0

\* C9 witness: a tick on a falling edge that appended its record.
C9_Witness ==
    /\ AfterDetectOnce
    /\ loc.E = <<AboveThreshold, BelowThreshold>>
    /\ Appended = 1

\* C10: the record a detectOnce appends has before - after equal to the
\* prev_length its RBW.insert returned, and its payload lists exactly the
\* dimensions whose anomaly_rate(prev_length) is at least
\* ADUnitRateThreshold, each once with that rate, in non-increasing order
\* of rate.
C10_RecordContents ==
    (AfterDetectOnce /\ Appended > 0) =>
        LET rec == DB[Len(DB)]
            pl  == rec.payload
        IN  /\ rec.before - rec.after = loc.WindowLength
            /\ {pl[i][2] : i \in 1..Len(pl)} = Qualifying
            /\ Len(pl) = Cardinality(Qualifying)
            /\ \A i \in 1..Len(pl) : pl[i][1] = hist.rates[pl[i][2]]
            /\ \A i, j \in 1..Len(pl) : i < j => GE(pl[i][1], pl[j][1])

\* C10 witness: a record whose payload lists two dimensions of different
\* rates.
C10_Witness ==
    /\ AfterDetectOnce /\ Appended = 1
    /\ Len(DB[Len(DB)].payload) = 2
    /\ LT(DB[Len(DB)].payload[2][1], DB[Len(DB)].payload[1][1])

\* C11: every value a dimension's anomalyRate(prev_length) returns when the
\* host builds an event lies in [0, 1]: the tally of anomaly bits accumulated
\* since it was last re-based never exceeds the prev_length it is divided by.
C11_UnitRateInUnitInterval ==
    \A d \in DOMAIN hist.rates :
        /\ hist.rates[d].den > 0
        /\ 0 <= hist.rates[d].num
        /\ hist.rates[d].num <= hist.rates[d].den

\* The number of ticks among the last L in which detect() of d returned 1.
OnesInLast(d, L) == PopCount(LastBits(hist.bits[d], L))

\* C12: when an event is built on a falling edge with closed length L, the
\* rate computed for each dimension equals the number of detection ticks
\* among the last L ticks in which that dimension's detect() returned 1,
\* divided by L.
C12_RateOverClosingWindow ==
    (AfterDetectOnce /\ loc.E = <<AboveThreshold, BelowThreshold>>) =>
        \A d \in DOMAIN hist.rates :
            hist.rates[d].num * loc.WindowLength
                = OnesInLast(d, loc.WindowLength) * hist.rates[d].den

(***************************************************************************)
(* SpecS6: a host whose only dimension has a model; the host window is     *)
(* built with any ADWindowSize in 1..MaxS6Window and any threshold count   *)
(* in 0..ADWindowSize.  The detection thread runs detectOnce tick after    *)
(* tick; the dimension's detect() returns 0 for some ticks, then 1 for     *)
(* exactly ADWindowSize consecutive ticks, then 0 for good.                *)
(***************************************************************************)

MaxS6Window == 5
MaxS6Ticks == 17

\* The dimension of the scenario.
S6Dim == CHOOSE d \in DimIds : \A e \in DimIds : d <= e

\* The ADWindowSize the host window was built with.
S6Window == hRBW.MinLength

\* The values detect() has returned so far, and how many of them were 1.
S6Bits == hist.bits[S6Dim]
S6Ones == PopCount(S6Bits)

\* The ticks since the last tick in which detect() returned 1.
RECURSIVE TrailingZeros(_)
TrailingZeros(b) ==
    IF b = <<>> \/ b[Len(b)] = 1 THEN 0
    ELSE 1 + TrailingZeros(SubSeq(b, 1, Len(b) - 1))

\* What detect() may return in the next tick: the run has not begun, is
\* under way, or is over.
S6NextBits ==
    IF S6Ones = 0 THEN {0, 1}
    ELSE IF S6Ones < S6Window THEN {1}
    ELSE {0}

\* The run is over and the window has seen ADWindowSize + 2 ticks without
\* an anomaly since.
S6Done ==
    /\ dpc = "idle"
    /\ S6Ones = S6Window
    /\ TrailingZeros(S6Bits) >= S6Window + 2

InitS6 ==
    /\ ParkW /\ ParkD /\ ParkY /\ ParkX /\ ParkT /\ ParkQ
    /\ DimensionsMap = {S6Dim}
    /\ dims = [d \in DimIds |->
                 IF d = S6Dim THEN [Dimension(0) EXCEPT !.HasModel = TRUE]
                 ELSE Dimension(0)]
    /\ NumDimensions = 1
    /\ \E W \in 1..MaxS6Window : \E T \in 0..W : hRBW = RollingBitWindow(W, T)
    /\ AnomalyRate = Fraction(0, 1)
    /\ DB = <<>>
    /\ dpc = "idle"
    /\ loc = NoLocals
    /\ svc = [d \in DimIds |-> IF d = S6Dim THEN "in" ELSE "out"]
    /\ ticks = 0
    /\ hist = NoHist

S6Begin == ticks < MaxS6Ticks /\ ~S6Done /\ DetectOnceBegin /\ UNCHANGED varsT

S6Sweep ==
    /\ DetectSweep
    /\ hist'.bits[S6Dim][Len(hist'.bits[S6Dim])] \in S6NextBits

S6Event == DetectEvent

NextS6 ==
    \/ S6Begin
    \/ S6Sweep
    \/ S6Event

SpecS6 == InitS6 /\ [][NextS6]_vars

C36_TallyRebase ==
    [][/\ (dpc = "sweep" /\ dpc' # "sweep") =>
              /\ \A d \in DimensionsMap :
                    LET bit == hist'.bits[d][Len(hist'.bits[d])]
                    IN  dims'[d].BitCounter =
                           (IF loc.E = <<BelowThreshold, BelowThreshold>>
                            THEN numSetBits(dims[d].RBC)
                            ELSE dims[d].BitCounter) + bit
              /\ (dpc' = "event") <=> (loc.E = <<AboveThreshold, BelowThreshold>>)
       /\ (dpc = "event" /\ dpc' # "event") =>
              /\ loc.E = <<AboveThreshold, BelowThreshold>>
              /\ \A d \in DimensionsMap :
                    /\ dims'[d].RBC = dims[d].RBC
                    /\ dims'[d].BitCounter = numSetBits(dims[d].RBC)
       /\ dpc \notin {"sweep", "event"} =>
              \A d \in DimensionsMap \cap DimensionsMap' :
                 dims'[d].BitCounter = dims[d].BitCounter]_vars

\* C36 witness: a (BelowThreshold, BelowThreshold) tick in the run of
\* anomalous ticks: the dimension has been anomalous three times and its
\* tally is 2, the bit its counter held before the tick plus the tick's.
C36_Witness ==
    /\ dpc = "idle"
    /\ loc.E = <<BelowThreshold, BelowThreshold>>
    /\ S6Ones = 3
    /\ S6Bits[Len(S6Bits)] = 1
    /\ dims[S6Dim].BitCounter = 2

(***************************************************************************)
(* SpecSB: a SamplesBuffer of any NumSamples in 0..MaxNumSamples, any      *)
(* NumDimsPerSample in 1..MaxDimsPerSample and any DiffN, SmoothN, LagN in *)
(* 0..MaxStageN, on which preprocess() is called once.                     *)
(***************************************************************************)

MaxNumSamples == 20
MaxDimsPerSample == 2
MaxStageN == 5

preprocess_lag1(b) ==
    IF b.DiffN >= b.NumSamples THEN [Preprocessed |-> FALSE, DSamples |-> <<>>]
    ELSE LET OutN1 == b.NumSamples - b.DiffN
         IN  IF b.SmoothN = 0 \/ b.SmoothN > OutN1
             THEN [Preprocessed |-> FALSE, DSamples |-> <<>>]
             ELSE LET OutN2 == OutN1 - (b.SmoothN - 1)
                  IN  IF b.LagN >= OutN2
                      THEN [Preprocessed |-> FALSE, DSamples |-> <<>>]
                      ELSE LET OutN3 == OutN2 - (b.LagN - 1)
                           IN  [Preprocessed |-> TRUE,
                                DSamples |-> [i \in 1..OutN3 |->
                                                b.NumDimsPerSample * (b.LagN + 1)]]

preprocess_smooth0(b) ==
    IF b.DiffN >= b.NumSamples THEN [Preprocessed |-> FALSE, DSamples |-> <<>>]
    ELSE LET OutN1 == b.NumSamples - b.DiffN
         IN  IF b.SmoothN = 0 \/ b.SmoothN > OutN1
             THEN [Preprocessed |-> FALSE, DSamples |-> <<>>]
             ELSE LET OutN2 == OutN1 - b.SmoothN
                  IN  IF b.LagN >= OutN2
                      THEN [Preprocessed |-> FALSE, DSamples |-> <<>>]
                      ELSE LET OutN3 == OutN2 - b.LagN
                           IN  [Preprocessed |-> TRUE,
                                DSamples |-> [i \in 1..OutN3 |->
                                                b.NumDimsPerSample * (b.LagN + 1)]]

\* std::vector<DSample> SamplesBuffer::preprocess(): the vector returned
\* (each DSample by its size) and the value Preprocessed is left with.
preprocess(b) ==
    IF b.DiffN >= b.NumSamples THEN [Preprocessed |-> FALSE, DSamples |-> <<>>]
    ELSE LET OutN1 == b.NumSamples - b.DiffN
         IN  IF b.SmoothN = 0 \/ b.SmoothN > OutN1
             THEN [Preprocessed |-> FALSE, DSamples |-> <<>>]
             ELSE LET OutN2 == OutN1 - (b.SmoothN - 1)
                  IN  IF b.LagN >= OutN2
                      THEN [Preprocessed |-> FALSE, DSamples |-> <<>>]
                      ELSE LET OutN3 == OutN2 - b.LagN
                           IN  [Preprocessed |-> TRUE,
                                DSamples |-> [i \in 1..OutN3 |->
                                                b.NumDimsPerSample * (b.LagN + 1)]]

\* preprocess() has not been called on the buffer yet.
NotCalled == <<-1>>

InitSB ==
    /\ ParkW /\ ParkD /\ ParkY /\ ParkX /\ ParkH /\ ParkT
    /\ query = NoQuery
    /\ \E n \in 0..MaxNumSamples : \E k \in 1..MaxDimsPerSample :
         \E dn \in 0..MaxStageN : \E sn \in 0..MaxStageN : \E ln \in 0..MaxStageN :
            sb = [NumSamples |-> n, NumDimsPerSample |-> k, DiffN |-> dn,
                  SmoothN |-> sn, LagN |-> ln, Preprocessed |-> FALSE]
    /\ DSamples = NotCalled

Preprocess ==
    /\ DSamples = NotCalled
    /\ ~sb.Preprocessed
    /\ DSamples' = preprocess(sb).DSamples
    /\ sb' = [sb EXCEPT !.Preprocessed = preprocess(sb).Preprocessed]
    /\ UNCHANGED <<query, varsW, varsD, varsH, varsT, varsX, varsY>>

NextSB == Preprocess

SpecSB == InitSB /\ [][NextSB]_vars

\* The rows left after diff, after smooth and after lag, were no stage to fail.
RowsAfterDiff == sb.NumSamples - sb.DiffN
RowsAfterSmooth == RowsAfterDiff - (sb.SmoothN - 1)
RowsAfterLag == RowsAfterSmooth - sb.LagN

\* C20: for all rows >= 0, DiffN >= 0, SmoothN >= 1 and LagN >= 0,
\* preprocess() yields exactly max(0, rows - DiffN - (SmoothN - 1) - LagN)
\* rows, each with in_dims * (LagN + 1) columns, and the result is empty
\* exactly when some stage (diff, smooth or lag) would leave no row.
C20_RowCountIdentity ==
    (DSamples # NotCalled /\ sb.SmoothN >= 1) =>
        /\ Len(DSamples) = (IF RowsAfterLag > 0 THEN RowsAfterLag ELSE 0)
        /\ \A i \in 1..Len(DSamples) :
              DSamples[i] = sb.NumDimsPerSample * (sb.LagN + 1)
        /\ (DSamples = <<>>) <=>
              (RowsAfterDiff <= 0 \/ RowsAfterSmooth <= 0 \/ RowsAfterLag <= 0)

\* C20 witness: 7 rows with DiffN 1, SmoothN 3 and LagN 2 gave 2 rows.
C20_Witness ==
    /\ sb.NumSamples = 7 /\ sb.DiffN = 1 /\ sb.SmoothN = 3 /\ sb.LagN = 2
    /\ Len(DSamples) = 2
    /\ sb.Preprocessed

\* The buffer of scenario S5: 20 rows of 1 dimension, DiffN 1, SmoothN 3 and
\* LagN 5, after preprocess() has returned.
S5Preprocessed ==
    /\ DSamples # NotCalled
    /\ sb.NumSamples = 20 /\ sb.NumDimsPerSample = 1
    /\ sb.DiffN = DiffN /\ sb.SmoothN = SmoothN /\ sb.LagN = LagN

\* C21 as stated: a SamplesBuffer with rows = 20, in_dims = 1, DiffN = 1,
\* SmoothN = 3 and LagN = 5 preprocesses to 11 output rows of 6 columns each.
C21_Original ==
    S5Preprocessed =>
        /\ Len(DSamples) = 11
        /\ \A i \in 1..Len(DSamples) : DSamples[i] = 6

\* C21 amended: a SamplesBuffer with rows = 20, in_dims = 1, DiffN = 1,
\* SmoothN = 3 and LagN = 5 preprocesses to 12 output rows (20 - 1 - 2 - 5)
\* of 6 columns each.
C21_TwelveRowsOfSix ==
    S5Preprocessed =>
        /\ Len(DSamples) = 12
        /\ \A i \in 1..Len(DSamples) : DSamples[i] = 6

\* C21 witness: preprocess() has returned a non-empty vector for the buffer
\* of scenario S5.
C21_Witness ==
    /\ S5Preprocessed
    /\ sb.Preprocessed
    /\ DSamples # <<>>

\* The number of centroids KM.train() fits.
NumCentroids == 2

\* The rows of the matrix train() hands to KM.train(SB) when
\* getCalculatedNumbers came back with n values:
\* SamplesBuffer(CNs, N, 1, Cfg.DiffN, Cfg.SmoothN, Cfg.LagN), preprocessed.
TrainRows(n) ==
    Len(preprocess([NumSamples |-> n, NumDimsPerSample |-> 1, DiffN |-> DiffN,
                    SmoothN |-> SmoothN, LagN |-> LagN,
                    Preprocessed |-> FALSE]).DSamples)

\* C22: train() never returns Success and never marks the dimension as
\* having a model when the preprocessed training matrix has fewer rows than
\* centroids (in particular when preprocessing yields an empty matrix); the
\* dimension then keeps the model state it had before the call.
C22_NoSuccessOnShortMatrix ==
    [][(/\ pc[TrainingThread] = "locked"
        /\ pc'[TrainingThread] = "return"
        /\ res'[TrainingThread].Err # ShouldNotTrainNow
        /\ TrainRows(trainN') < NumCentroids) =>
           /\ res'[TrainingThread].Err # Success
           /\ dim'.HasModel = dim.HasModel]_vars

\* C35: a train(now) that does not return Success (TryLockFailed,
\* ShouldNotTrainNow or MissingData) leaves the dimension's LastTrainedAt,
\* model and anomaly bit unchanged; LastTrainedAt becomes now only in a
\* call that returns Success.
C35_FailedTrainKeepsState ==
    [][/\ (/\ res'[TrainingThread] # res[TrainingThread]
            /\ res'[TrainingThread] # NoResult
            /\ res'[TrainingThread].Err # Success) =>
              /\ dim'.LastTrainedAt = dim.LastTrainedAt
              /\ dim'.HasModel = dim.HasModel
              /\ dim'.AnomalyBit = dim.AnomalyBit
       /\ dim'.LastTrainedAt # dim.LastTrainedAt =>
              /\ res'[TrainingThread].Err = Success
              /\ dim'.LastTrainedAt = Now]_vars

\* C38 as claimed: a predict() that returns Success has read exactly
\* DiffN + SmoothN + LagN + 1 samples from storage.
C38_Original ==
    (pc[DetectionThread] = "return" /\ res[DetectionThread].Err = Success) =>
        predictN = DiffN + SmoothN + LagN + 1

\* C38 as amended: a predict() that returns Success has read exactly
\* DiffN + SmoothN + LagN samples from storage, whatever more the storage
\* held, and the frame preprocessed from them is a single row; a predict()
\* that got fewer returned MissingData.
C38_ReadsExactlyN ==
    /\ (pc[DetectionThread] = "return" /\ res[DetectionThread].Err = Success) =>
          /\ predictN = DiffN + SmoothN + LagN
          /\ TrainRows(predictN) = 1
    /\ (pc[DetectionThread] = "return" /\ res[DetectionThread].Err = MissingData) =>
          /\ predictN < DiffN + SmoothN + LagN
          /\ TrainRows(predictN) = 0

\* C38 witness: predict() has returned Success on the samples it read.
C38_Witness ==
    /\ pc[DetectionThread] = "return"
    /\ res[DetectionThread].Err = Success
    /\ predictN = DiffN + SmoothN + LagN
    /\ dim.AnomalyScore > 0

(***************************************************************************)
(* SpecQuery: the storage query of one getCalculatedNumbers(MinN, MaxN),   *)
(* for any MaxN in 1..MaxQueryN and any number 0..MaxQueryLeft of metrics  *)
(* the storage holds in the window asked for.  is_finished() of the        *)
(* storage is true once the cursor has handed out all of them.             *)
(***************************************************************************)

MaxQueryN == 4
MaxQueryLeft == 6

InitQuery ==
    /\ ParkW /\ ParkD /\ ParkY /\ ParkX /\ ParkH /\ ParkT
    /\ sb = NoBuffer
    /\ DSamples = <<>>
    /\ \E n \in 1..MaxQueryN : \E k \in 0..MaxQueryLeft :
         query = [pc |-> "start", MaxN |-> n, Idx |-> 0, left |-> k,
                  inits |-> 0, finals |-> 0]

\* Query Q = Query(RD); Q.init(AfterT, BeforeT);
QueryInit ==
    /\ query.pc = "start"
    /\ query' = [query EXCEPT !.inits = @ + 1, !.pc = "test"]
    /\ UNCHANGED <<sb, DSamples, varsW, varsD, varsH, varsT, varsX, varsY>>

\* while (!Q.isFinished()): Query::isFinished finalizes the handle when the
\* storage says the query is finished, and only then.
QueryIsFinished ==
    /\ query.pc = "test"
    /\ query' = IF query.left = 0
                THEN [query EXCEPT !.finals = @ + 1, !.pc = "after"]
                ELSE [query EXCEPT !.pc = "body"]
    /\ UNCHANGED <<sb, DSamples, varsW, varsD, varsH, varsT, varsX, varsY>>

\* if (Idx == MaxN) break;
QueryBreak ==
    /\ query.pc = "body"
    /\ query.Idx = query.MaxN
    /\ query' = [query EXCEPT !.pc = "after"]
    /\ UNCHANGED <<sb, DSamples, varsW, varsD, varsH, varsT, varsX, varsY>>

\* auto P = Q.nextMetric(); ... Idx++;
QueryNextMetric ==
    /\ query.pc = "body"
    /\ query.Idx # query.MaxN
    /\ query' = [query EXCEPT !.left = @ - 1, !.Idx = @ + 1, !.pc = "test"]
    /\ UNCHANGED <<sb, DSamples, varsW, varsD, varsH, varsT, varsX, varsY>>

\* The rest of getCalculatedNumbers, which does not touch Q, and its return.
QueryReturn ==
    /\ query.pc = "after"
    /\ query' = [query EXCEPT !.pc = "returned"]
    /\ UNCHANGED <<sb, DSamples, varsW, varsD, varsH, varsT, varsX, varsY>>

NextQuery ==
    \/ QueryInit
    \/ QueryIsFinished
    \/ QueryBreak
    \/ QueryNextMetric
    \/ QueryReturn

SpecQuery == InitQuery /\ [][NextQuery]_vars

\* C18: every storage query on which init was called is finalised exactly
\* once before the operation that opened it returns, on every exit path,
\* including the one where the loop stops because the buffer holds MaxN
\* samples.
C18_FinalizedOnce ==
    /\ query.finals <= query.inits
    /\ query.pc = "returned" => query.finals = query.inits

(***************************************************************************)
(* The loops of the two threads of a host.  In the specifications below    *)
(* SteadyClock is kept relative to the present: clock stays 0 and the      *)
(* passing of x ticks moves every LastTrainedAt x ticks into the past, no  *)
(* further than TrainEvery + 1 ticks, beyond which train() cannot tell     *)
(* the difference.                                                         *)
(***************************************************************************)

\* x ticks of SteadyClock pass.
Elapse(ds, x) ==
    [d \in DimIds |->
        [ds[d] EXCEPT !.LastTrainedAt =
            IF @ - x < 0 - (TrainEvery + 1) THEN 0 - (TrainEvery + 1) ELSE @ - x]]

\* The dimension whose train() made trainOne's walk stop, if any.
RECURSIVE trainOneSuccess(_, _, _, _)
trainOneSuccess(ds, order, now, Ns) ==
    IF order = <<>> THEN {}
    ELSE IF train(ds[Head(order)], now, Ns[Head(order)]).Err = Success
    THEN {Head(order)}
    ELSE trainOneSuccess(ds, Tail(order), now, Ns)

\* while (!netdata_exit) of TrainableHost::train.
TrainLoopTest ==
    /\ tpc = "top"
    /\ tpc' = IF netdata_exit THEN "done" ELSE "walk"
    /\ UNCHANGED <<netdata_exit, lpc, jpc, nap, justTrained, varsW, varsD,
                   varsH, varsQ, varsX,
                   varsY>>

\* StartTP = SteadyClock::now(); trainOne(StartTP); the dimensions' train()
\* finding the numbers of values Inputs allows.
TrainLoopWalkWith(Inputs) ==
    /\ tpc = "walk"
    /\ \E Ns \in [DimensionsMap -> Inputs] :
         /\ dims' = trainOne(dims, MapOrder(DimensionsMap), clock, Ns)
         /\ justTrained' = trainOneSuccess(dims, MapOrder(DimensionsMap), clock, Ns)
    /\ tpc' = "pace"
    /\ UNCHANGED <<netdata_exit, lpc, jpc, nap, DimensionsMap, NumDimensions,
                   hRBW,
                   AnomalyRate, DB, dpc, loc, svc, ticks, hist, varsW, varsD, varsQ, varsX,
                   varsY>>

TrainLoopWalk == TrainLoopWalkWith(TrainInputs)

\* A walk in which every dimension has all the data train() asks for.
TrainLoopWalkFull == TrainLoopWalkWith({TrainMaxN})

\* EndTP = SteadyClock::now() and the rest of the loop body.  A walk that
\* trained a dimension took RealDuration = e ticks, any number up to
\* TrainEvery + 1; one of e >= 1 ticks is longer than AllottedDuration
\* (TrainEvery / (NumDimensions + 1), less than a tick) and the loop
\* continues at once.  Otherwise the thread sleeps what is left of
\* AllottedDuration, and NumDimensions + 1 such sleeps add up to TrainEvery.
TrainLoopPace ==
    /\ tpc = "pace"
    /\ \E e \in 0..(IF justTrained = {} THEN 0 ELSE TrainEvery + 1) :
         IF e >= 1
         THEN /\ dims' = Elapse(dims, e)
              /\ nap' = nap
         ELSE IF nap >= NumDimensions
              THEN /\ dims' = Elapse(dims, TrainEvery)
                   /\ nap' = 0
              ELSE /\ dims' = dims
                   /\ nap' = nap + 1
    /\ tpc' = "top"
    /\ UNCHANGED <<netdata_exit, lpc, jpc, justTrained, DimensionsMap,
                   NumDimensions,
                   hRBW, AnomalyRate, DB, dpc, loc, svc, ticks, hist, varsW, varsD, varsQ, varsX,
                   varsY>>

(***************************************************************************)
(* SpecTrain: the training thread of a host with the dimensions DimIds,    *)
(* which all have sufficient data; the thread keeps running (netdata_exit  *)
(* stays false).                                                           *)
(***************************************************************************)

InitTrain ==
    /\ ParkW /\ ParkD /\ ParkY /\ ParkX /\ ParkQ
    /\ DimensionsMap = DimIds
    /\ dims = [d \in DimIds |-> Dimension(0)]
    /\ NumDimensions = Cardinality(DimIds)
    /\ hRBW = RollingBitWindow(ADWindowSize, HostSetBitsThreshold)
    /\ AnomalyRate = Fraction(0, 1)
    /\ DB = <<>>
    /\ dpc = "idle"
    /\ loc = NoLocals
    /\ svc = [d \in DimIds |-> "in"]
    /\ ticks = 0
    /\ hist = NoHist
    /\ netdata_exit = FALSE
    /\ tpc = "top"
    /\ lpc = "none"
    /\ jpc = "none"
    /\ nap = 0
    /\ justTrained = {}

NextTrain ==
    \/ TrainLoopTest
    \/ TrainLoopWalkFull
    \/ TrainLoopPace

SpecTrain == InitTrain /\ [][NextTrain]_vars /\ WF_vars(NextTrain)

\* C16: with a fixed set of dimensions that all have sufficient data and a
\* training thread that keeps running, every dimension is trained again
\* and again, however long individual trainings take.
C16_EveryDimensionTrainedAgain ==
    \A d \in DimIds : []<>(tpc = "pace" /\ d \in justTrained)

(***************************************************************************)
(* SpecStop: a host with one dimension whose two threads run their         *)
(* loops.  At any moment the host may be deleted, which calls              *)
(* stopAnomalyDetectionThreads, and at any moment the process may begin to *)
(* shut down, which sets netdata_exit.                                     *)
(***************************************************************************)

InitStop ==
    /\ ParkW /\ ParkD /\ ParkY /\ ParkX /\ ParkQ
    /\ DimensionsMap = {S6Dim}
    /\ dims = [d \in DimIds |-> Dimension(0)]
    /\ NumDimensions = 1
    /\ hRBW = RollingBitWindow(ADWindowSize, HostSetBitsThreshold)
    /\ AnomalyRate = Fraction(0, 1)
    /\ DB = <<>>
    /\ dpc = "idle"
    /\ loc = NoLocals
    /\ svc = [d \in DimIds |-> IF d = S6Dim THEN "in" ELSE "out"]
    /\ ticks = 0
    /\ hist = NoHist
    /\ netdata_exit = FALSE
    /\ tpc = "top"
    /\ lpc = "top"
    /\ jpc = "none"
    /\ nap = 0
    /\ justTrained = {}

\* while (!netdata_exit) of DetectableHost::detect.
DetectLoopTest ==
    /\ lpc = "top"
    /\ lpc' = IF netdata_exit THEN "done" ELSE "once"
    /\ UNCHANGED <<netdata_exit, tpc, jpc, nap, justTrained, varsW, varsD,
                   varsH, varsQ, varsX,
                   varsY>>

\* detectOnce() is called.
DetectLoopOnce ==
    /\ lpc = "once"
    /\ ticks < MaxTicks
    /\ DetectOnceBegin
    /\ lpc' = "in"
    /\ UNCHANGED <<netdata_exit, tpc, jpc, nap, justTrained>>

\* detectOnce() has returned: std::this_thread::sleep_for(Seconds{1}).
DetectLoopSleep ==
    /\ lpc = "in"
    /\ dpc = "idle"
    /\ lpc' = "top"
    /\ UNCHANGED <<netdata_exit, tpc, jpc, nap, justTrained, varsW, varsD,
                   varsH, varsQ, varsX,
                   varsY>>

\* The host is deleted: stopAnomalyDetectionThreads() is called.
StopCall ==
    /\ jpc = "none"
    /\ jpc' = "joinTraining"
    /\ UNCHANGED <<netdata_exit, tpc, lpc, nap, justTrained, varsW, varsD,
                   varsH, varsQ, varsX,
                   varsY>>

\* TrainingThread.join() returns once the training thread has terminated.
JoinTraining ==
    /\ jpc = "joinTraining"
    /\ tpc = "done"
    /\ jpc' = "joinDetection"
    /\ UNCHANGED <<netdata_exit, tpc, lpc, nap, justTrained, varsW, varsD,
                   varsH, varsQ, varsX,
                   varsY>>

\* DetectionThread.join() returns once the detection thread has terminated.
JoinDetection ==
    /\ jpc = "joinDetection"
    /\ lpc = "done"
    /\ jpc' = "joined"
    /\ UNCHANGED <<netdata_exit, tpc, lpc, nap, justTrained, varsW, varsD,
                   varsH, varsQ, varsX,
                   varsY>>

\* The process begins to shut down.
Exit ==
    /\ ~netdata_exit
    /\ netdata_exit' = TRUE
    /\ UNCHANGED <<tpc, lpc, jpc, nap, justTrained, varsW, varsD, varsH,
                   varsQ, varsX, varsY>>

NextStop ==
    \/ TrainLoopTest
    \/ TrainLoopWalk
    \/ TrainLoopPace
    \/ DetectLoopTest
    \/ DetectLoopOnce
    \/ DetectSweep
    \/ DetectEvent
    \/ DetectLoopSleep
    \/ StopCall
    \/ JoinTraining
    \/ JoinDetection
    \/ Exit

SpecStop == InitStop /\ [][NextStop]_vars

\* C19: once stopAnomalyDetectionThreads has been called, a thread that
\* tests its loop condition observes a stop signal and terminates, whether
\* or not the process is shutting down.
C19_StopObservedAtLoopTop ==
    [][jpc # "none" =>
          /\ (tpc = "top" /\ tpc' # tpc) => tpc' = "done"
          /\ (lpc = "top" /\ lpc' # lpc) => lpc' = "done"]_vars

(***************************************************************************)
(* SpecCtor: a host is constructed under any configuration with            *)
(* ADWindowSize in 1..MaxCfgWindowSize and a window rate threshold num/den *)
(* in [0, 1] with den in 1..MaxCfgRateDen.  The member initialiser of      *)
(* DetectableHost::RBW builds the host's window from the configuration.    *)
(***************************************************************************)

MaxCfgWindowSize == 6
MaxCfgRateDen == 4

InitCtor == ParkW /\ ParkD /\ ParkY /\ ParkH /\ ParkT /\ ParkQ /\ ParkX

\* The configuration is read.
Configure ==
    /\ cfg.pc = "none"
    /\ \E W \in 1..MaxCfgWindowSize : \E den \in 1..MaxCfgRateDen : \E num \in 0..den :
          cfg' = [pc |-> "configured", ADWindowSize |-> W,
                  ADWindowRateThreshold |-> Fraction(num, den)]
    /\ UNCHANGED <<varsW, varsD, varsH, varsT, varsQ, varsF, varsB, varsO,
                   varsA, varsY>>

\* DetectableHost is constructed: RBW{size, threshold}.
ConstructHost ==
    /\ cfg.pc = "configured"
    /\ hRBW' = RollingBitWindow(cfg.ADWindowSize,
                   HostSetBitsThresholdOf(cfg.ADWindowSize, cfg.ADWindowRateThreshold))
    /\ cfg' = [cfg EXCEPT !.pc = "constructed"]
    /\ UNCHANGED <<DimensionsMap, dims, NumDimensions, AnomalyRate, DB, dpc,
                   loc,
                   svc, ticks, hist, varsW, varsD, varsT, varsQ, varsF, varsB, varsO, varsA,
                   varsY>>

NextCtor == Configure \/ ConstructHost

SpecCtor == InitCtor /\ [][NextCtor]_vars

\* The least integer that is not below the fraction n / d.
Ceiling(n, d) == (n + d - 1) \div d

\* C25: the set-bit threshold T with which a host's RollingBitWindow is
\* constructed equals the ceiling of ADWindowSize * ADWindowRateThreshold,
\* for every configured ADWindowSize >= 1 and rate in [0, 1].
C25_ThresholdIsCeiling ==
    cfg.pc = "constructed" =>
        hRBW.SetBitsThreshold =
            Ceiling(cfg.ADWindowSize * cfg.ADWindowRateThreshold.num,
                    cfg.ADWindowRateThreshold.den)

(***************************************************************************)
(* SpecFanout: one call of function_fanout over rrdhost_root_index.  The   *)
(* index holds the hosts 1..MaxFanoutHosts, in the order the traversals    *)
(* visit them.  Which hosts have the target function is decided by         *)
(* rrd_function_available() at the moment a traversal asks, and may change *)
(* between the two traversals and during the second one.  The functions    *)
(* dispatched answer through fanout_result_callback from other threads, at *)
(* any moment or never; the callback runs under state->mutex, which the    *)
(* caller holds only inside one evaluation of its wait loop.  A write      *)
(* past the results array, a dereference of a host pointer that was never  *)
(* set and an unlocked read that races with a callback are undefined       *)
(* behaviour: each is a choice between the outcomes they can have.         *)
(***************************************************************************)

MaxFanoutHosts == 2
MaxFanoutTimeout == 2
MaxAvailabilityChanges == 1

HTTP_RESP_OK == 200
HTTP_RESP_NOT_FOUND == 404
HTTP_RESP_GATEWAY_TIMEOUT == 504

\* The hosts of rrdhost_root_index.
FanoutHosts == 1..MaxFanoutHosts

\* The codes a host's function may complete with.
FanoutHostCodes == {HTTP_RESP_OK, HTTP_RESP_NOT_FOUND}

\* A slot of callocz(count, sizeof(struct fanout_result)): all zero.  late
\* is history: the callback wrote the slot after the caller left its wait.
ZeroResult == [host |-> 0, code |-> 0, done |-> FALSE, late |-> FALSE]

\* fanout_result_callback on the slot of host h: r->code = code; r->done = true.
fanout_result_callback(results, h, code, late) ==
    [k \in DOMAIN results |->
        IF results[k].host = h
        THEN [results[k] EXCEPT !.code = code, !.done = TRUE, !.late = late]
        ELSE results[k]]

InitFanout == ParkW /\ ParkD /\ ParkY /\ ParkH /\ ParkT /\ ParkQ /\ ParkX

\* function_fanout is called with a target function: the timeout is parsed.
FanoutCall ==
    /\ fan.pc = "none"
    /\ \E t \in 1..MaxFanoutTimeout : \E A \in SUBSET FanoutHosts :
          /\ fan' = [fan EXCEPT !.pc = "count", !.timeout_s = t]
          /\ fenv' = [fenv EXCEPT !.available = A]
    /\ UNCHANGED <<varsW, varsD, varsH, varsT, varsQ, varsC, varsB, varsO,
                   varsA, varsY>>

\* First pass: count the hosts that have the function, then allocate.
FanoutCount ==
    /\ fan.pc = "count"
    /\ LET count == Cardinality(fenv.available)
       IN  IF count = 0
           THEN fan' = [fan EXCEPT !.pc = "returned", !.code = HTTP_RESP_NOT_FOUND]
           ELSE fan' = [fan EXCEPT !.pc = "dispatch", !.total = count,
                                   !.results = [k \in 1..count |-> ZeroResult],
                                   !.host = 1]
    /\ UNCHANGED <<fenv, varsW, varsD, varsH, varsT, varsQ, varsC, varsB,
                   varsO, varsA,
                   varsY>>

\* A host registers or loses the function while the call is between its
\* passes or in the second one.
AvailabilityChange ==
    /\ fan.pc = "dispatch"
    /\ fenv.changes < MaxAvailabilityChanges
    /\ \E h \in FanoutHosts :
          fenv' = [fenv EXCEPT
                      !.available = IF h \in @ THEN @ \ {h} ELSE @ \cup {h},
                      !.changes = @ + 1]
    /\ UNCHANGED <<fan, varsW, varsD, varsH, varsT, varsQ, varsC, varsB,
                   varsO, varsA, varsY>>

\* Second pass, one host: skip it, or fill results[idx] and dispatch.
FanoutDispatch ==
    /\ fan.pc = "dispatch"
    /\ fan.host <= MaxFanoutHosts
    /\ LET h == fan.host
       IN  IF h \notin fenv.available
           THEN /\ fan' = [fan EXCEPT !.host = @ + 1]
                /\ UNCHANGED fenv
           ELSE IF fan.idx < fan.total
           THEN /\ fan' = [fan EXCEPT !.results[fan.idx + 1] = [ZeroResult EXCEPT !.host = h],
                                      !.idx = @ + 1, !.host = @ + 1]
                /\ fenv' = [fenv EXCEPT !.running = @ \cup {h},
                                        !.dispatched = Append(@, h)]
           ELSE \/ /\ fan' = [fan EXCEPT !.pc = "crashed"]
                   /\ UNCHANGED fenv
                \/ /\ fan' = [fan EXCEPT !.idx = @ + 1, !.host = @ + 1]
                   /\ fenv' = [fenv EXCEPT !.running = @ \cup {h},
                                           !.dispatched = Append(@, h)]
    /\ UNCHANGED <<varsW, varsD, varsH, varsT, varsQ, varsC, varsB, varsO,
                   varsA, varsY>>

\* The second pass is over: the deadline is computed and the mutex taken.
FanoutDispatched ==
    /\ fan.pc = "dispatch"
    /\ fan.host > MaxFanoutHosts
    /\ fan' = [fan EXCEPT !.pc = "wait", !.deadline_ut = fenv.now + fan.timeout_s]
    /\ UNCHANGED <<fenv, varsW, varsD, varsH, varsT, varsQ, varsC, varsB,
                   varsO, varsA,
                   varsY>>

\* A dispatched function completes: fanout_result_callback, under the mutex.
FanoutCallback ==
    /\ fan.pc \in {"dispatch", "wait", "build"}
    /\ \E h \in fenv.running : \E code \in FanoutHostCodes :
          /\ fan' = [fan EXCEPT
                        !.results = fanout_result_callback(@, h, code, fan.pc = "build"),
                        !.completed = @ + 1]
          /\ fenv' = [fenv EXCEPT !.running = @ \ {h},
                                  !.answered = Append(@, <<h, code>>)]
    /\ UNCHANGED <<varsW, varsD, varsH, varsT, varsQ, varsC, varsB, varsO,
                   varsA, varsY>>

\* now_realtime_usec() advances while the caller waits.
FanoutTick ==
    /\ fan.pc = "wait"
    /\ fenv.now < fan.deadline_ut
    /\ fenv' = [fenv EXCEPT !.now = @ + 1]
    /\ UNCHANGED <<fan, varsW, varsD, varsH, varsT, varsQ, varsC, varsB,
                   varsO, varsA, varsY>>

\* rfe->is_cancelled.cb starts to answer true.
FanoutCancel ==
    /\ fan.pc = "wait"
    /\ ~fenv.cancelled
    /\ fenv' = [fenv EXCEPT !.cancelled = TRUE]
    /\ UNCHANGED <<fan, varsW, varsD, varsH, varsT, varsQ, varsC, varsB,
                   varsO, varsA, varsY>>

\* One evaluation of the wait loop that leaves it: all completed, the
\* deadline reached, or cancelled.  Any other evaluation ends in
\* netdata_cond_timedwait and changes nothing.
FanoutWait ==
    /\ fan.pc = "wait"
    /\ \/ ~(fan.completed < fan.total)
       \/ fenv.now >= fan.deadline_ut
       \/ fenv.cancelled
    /\ fan' = [fan EXCEPT !.pc = "build", !.i = 1]
    /\ UNCHANGED <<fenv, varsW, varsD, varsH, varsT, varsQ, varsC, varsB,
                   varsO, varsA,
                   varsY>>

\* The head of the response: status, nodes_total, and nodes_completed as
\* state.completed reads now, the mutex released.
FanoutHeader ==
    /\ fan.pc = "build"
    /\ ~fan.header
    /\ fan' = [fan EXCEPT !.header = TRUE, !.nodes_completed = fan.completed]
    /\ UNCHANGED <<fenv, varsW, varsD, varsH, varsT, varsQ, varsC, varsB,
                   varsO, varsA,
                   varsY>>

\* The entry of the response for slot i.  completed is history: whether
\* the callback of the slot's host had completed when the entry was built.
FanoutBuild ==
    /\ fan.pc = "build"
    /\ fan.header
    /\ fan.i <= fan.total
    /\ LET r == fan.results[fan.i]
           cb == r.host # 0 /\ r.host \notin fenv.running
       IN  IF r.host = 0
           THEN \/ fan' = [fan EXCEPT !.pc = "crashed"]
                \/ fan' = [fan EXCEPT !.i = @ + 1,
                              !.nodes = Append(@, [host |-> 0, completed |-> cb,
                                                   code |-> HTTP_RESP_GATEWAY_TIMEOUT])]
           ELSE IF r.done
           THEN \E c \in (IF r.late THEN {r.code, 0} ELSE {r.code}) :
                   fan' = [fan EXCEPT !.i = @ + 1,
                              !.nodes = Append(@, [host |-> r.host, completed |-> cb,
                                                   code |-> c])]
           ELSE fan' = [fan EXCEPT !.i = @ + 1,
                           !.nodes = Append(@, [host |-> r.host, completed |-> cb,
                                                code |-> HTTP_RESP_GATEWAY_TIMEOUT])]
    /\ UNCHANGED <<fenv, varsW, varsD, varsH, varsT, varsQ, varsC, varsB,
                   varsO, varsA,
                   varsY>>

\* The response is finalized and handed to rfe->result.cb; the cleanup
\* frees every r->wb and state.results, destroys the mutex and the condvar,
\* and the call returns (state itself is a local of the call).
FanoutReturn ==
    /\ fan.pc = "build"
    /\ fan.header
    /\ fan.i > fan.total
    /\ fan' = [fan EXCEPT !.pc = "returned", !.code = HTTP_RESP_OK, !.freed = TRUE]
    /\ UNCHANGED <<fenv, varsW, varsD, varsH, varsT, varsQ, varsC, varsB,
                   varsO, varsA,
                   varsY>>

\* A dispatched function completes after the call returned:
\* fanout_result_callback locks state->mutex and writes r->code, r->done
\* and state->completed, all released.  released is history: the hosts
\* whose callback did so.  What the writes hit is undefined: nothing the
\* response shows, or the end of the process.
FanoutLateCallback ==
    /\ fan.pc = "returned"
    /\ fan.freed
    /\ \E h \in fenv.running :
          /\ fenv' = [fenv EXCEPT !.running = @ \ {h}, !.released = @ \cup {h}]
          /\ \/ UNCHANGED fan
             \/ fan' = [fan EXCEPT !.pc = "crashed"]
    /\ UNCHANGED <<varsW, varsD, varsH, varsT, varsQ, varsC, varsB, varsO,
                   varsA, varsY>>

FanoutStep ==
    \/ FanoutCount
    \/ FanoutDispatch
    \/ FanoutDispatched
    \/ FanoutWait
    \/ FanoutHeader
    \/ FanoutBuild
    \/ FanoutReturn

NextFanout ==
    \/ FanoutCall
    \/ FanoutCount
    \/ AvailabilityChange
    \/ FanoutDispatch
    \/ FanoutDispatched
    \/ FanoutCallback
    \/ FanoutTick
    \/ FanoutCancel
    \/ FanoutWait
    \/ FanoutHeader
    \/ FanoutBuild
    \/ FanoutReturn
    \/ FanoutLateCallback

\* The caller's thread keeps running and time passes; the functions
\* dispatched need not ever complete.
SpecFanout ==
    InitFanout /\ [][NextFanout]_vars /\ WF_vars(FanoutStep) /\ WF_vars(FanoutTick)

\* The response has one entry per dispatched host, in order, with the code
\* the host's callback delivered if it had completed and 504 otherwise.
FanoutAnswerOK ==
    /\ Len(fan.nodes) = Len(fenv.dispatched)
    /\ \A k \in 1..Len(fan.nodes) :
          /\ fan.nodes[k].host = fenv.dispatched[k]
          /\ IF fan.nodes[k].completed
             THEN \E a \in 1..Len(fenv.answered) :
                     fenv.answered[a] = <<fan.nodes[k].host, fan.nodes[k].code>>
             ELSE fan.nodes[k].code = HTTP_RESP_GATEWAY_TIMEOUT

\* C26: function_fanout always returns: it waits until every dispatched
\* host callback has completed or the timeout deadline (or a cancellation)
\* is reached, and then answers with one entry per dispatched host that
\* carries the host's own code and response if its callback had completed,
\* and code 504 otherwise.
C26_ReturnsOneEntryPerHost ==
    /\ (fan.pc = "count") ~> (fan.pc = "returned")
    /\ [](fan.pc = "build" =>
             (\/ fenv.running = {}
              \/ fenv.now >= fan.deadline_ut
              \/ fenv.cancelled))
    /\ [](fan.pc = "returned" => FanoutAnswerOK)

\* C33: no host callback reads or writes the fan-out state (the completed
\* counter, its result slot, the mutex and the condvar) after
\* function_fanout has freed and destroyed it.
C33_NoCallbackAfterRelease == fenv.released = {}

\* C39: in every fan-out response nodes_completed equals the number of
\* node entries that carry the host's own code (those not reported as 504).
C39_CompletedCountsOwnCodes ==
    (fan.pc = "returned" /\ fan.code = HTTP_RESP_OK) =>
        fan.nodes_completed =
            Cardinality({k \in 1..Len(fan.nodes) :
                            fan.nodes[k].code # HTTP_RESP_GATEWAY_TIMEOUT})

(***************************************************************************)
(* SpecCB: a CircularBuffer<int> constructed with any Size in              *)
(* 1..MaxBufferSize, on which push and pop are called in any order, pop    *)
(* only while empty() is false.  The items pushed are 1, 2, 3, ...; the    *)
(* slots of Buffer are indexed from 0 as in the code.                      *)
(***************************************************************************)

MaxBufferSize == 3
MaxPushes == 6

\* Buffer[i] of the vector, i counted from 0.
At(Buffer, i) == Buffer[i + 1]

\* explicit CircularBuffer(size_t Size = N) : Buffer(Size), MaxSize(Size)
CircularBuffer(Size) ==
    [Buffer |-> [k \in 1..Size |-> 0], MaxSize |-> Size, Head |-> 0, Tail |-> 0,
     Full |-> FALSE]

\* bool empty() const
empty(b) == ~b.Full /\ b.Head = b.Tail

\* size_t size() const
CircularBuffer_size(b) ==
    IF b.Full THEN b.MaxSize
    ELSE IF b.Tail >= b.Head THEN b.Tail - b.Head
    ELSE b.MaxSize - (b.Head - b.Tail)

\* size_t capacity() const
capacity(b) == b.MaxSize

\* std::rotate(first, first + n, last) on the whole vector.
std_rotate(Buffer, n) ==
    [k \in 1..Len(Buffer) |-> Buffer[((k - 1 + n) % Len(Buffer)) + 1]]

\* void makeContiguous()
makeContiguous(b) ==
    IF empty(b) \/ b.Head = 0 THEN b
    ELSE [b EXCEPT !.Buffer = std_rotate(b.Buffer, b.Head),
                   !.Head = 0,
                   !.Tail = CircularBuffer_size(b)]

\* void grow(): Buffer.resize(MaxSize) value-initialises the new slots.
grow(b) ==
    LET c == makeContiguous(b)
    IN  [c EXCEPT !.MaxSize = Len(c.Buffer) * 2,
                  !.Buffer = c.Buffer \o [k \in 1..Len(c.Buffer) |-> 0],
                  !.Full = FALSE]

\* void advanceTail()
advanceTail(b) ==
    LET head == IF b.Full THEN (b.Head + 1) % b.MaxSize ELSE b.Head
        tail == (b.Tail + 1) % b.MaxSize
    IN  [b EXCEPT !.Head = head, !.Tail = tail, !.Full = (head = tail)]

\* void advanceHead()
advanceHead(b) == [b EXCEPT !.Head = (b.Head + 1) % b.MaxSize, !.Full = FALSE]

\* void push(const T &item)
push(b, item) ==
    LET c == IF b.Full THEN grow(b) ELSE b
    IN  advanceTail([c EXCEPT !.Buffer[c.Tail + 1] = item])

\* T pop() on a buffer that is not empty(): the buffer left and the item.
pop(b) == [B |-> advanceHead(b), item |-> At(b.Buffer, b.Head)]

InitCB ==
    /\ ParkW /\ ParkD /\ ParkY /\ ParkH /\ ParkT /\ ParkQ /\ ParkC /\ ParkF /\ ParkO /\ ParkA
    /\ \E Size \in 1..MaxBufferSize : cbuf = CircularBuffer(Size)
    /\ cbh = [fifo |-> <<>>, popped |-> 0, oldest |-> 0, pushes |-> 0, pops |-> 0]

\* buffer.push(item), with the next item.
Push ==
    /\ cbh.pushes < MaxPushes
    /\ cbuf' = push(cbuf, cbh.pushes + 1)
    /\ cbh' = [cbh EXCEPT !.fifo = Append(@, cbh.pushes + 1),
                          !.pushes = @ + 1]
    /\ UNCHANGED <<varsW, varsD, varsH, varsT, varsQ, varsC, varsF, varsO,
                   varsA, varsY>>

\* buffer.pop(), the buffer reporting that it is not empty.
Pop ==
    /\ ~empty(cbuf)
    /\ cbuf' = pop(cbuf).B
    /\ cbh' = [cbh EXCEPT !.popped = pop(cbuf).item,
                          !.oldest = IF cbh.fifo = <<>> THEN 0 ELSE Head(cbh.fifo),
                          !.fifo = IF @ = <<>> THEN @ ELSE Tail(@),
                          !.pops = @ + 1]
    /\ UNCHANGED <<varsW, varsD, varsH, varsT, varsQ, varsC, varsF, varsO,
                   varsA, varsY>>

NextCB == Push \/ Pop

SpecCB == InitCB /\ [][NextCB]_vars

\* C27: for any interleaving of push and pop on a CircularBuffer (pop only
\* when non-empty), pop returns the elements in the order they were pushed
\* and size() equals the number of pushes minus the number of pops; a push
\* onto a full buffer doubles capacity() and loses no element.
C27_FifoOrderAndSize ==
    /\ cbh.popped = cbh.oldest
    /\ CircularBuffer_size(cbuf) = cbh.pushes - cbh.pops
    /\ CircularBuffer_size(cbuf) = Len(cbh.fifo)
    /\ \A k \in 1..Len(cbh.fifo) :
          At(cbuf.Buffer, (cbuf.Head + k - 1) % cbuf.MaxSize) = cbh.fifo[k]

(***************************************************************************)
(* SpecOtel: a DimensionContainer to which samples are added under the     *)
(* names of OtelNames, with any TimePoint in 1..MaxTimePoint in any order, *)
(* and from whose dimensions samples are popped.  The container holds at   *)
(* most MaxOtelSamples samples.  Dimensions is the map from the names      *)
(* emplaced to the IV of the dimension's SortedContainer.                  *)
(***************************************************************************)

MaxTimePoint == 3
MaxOtelSamples == 4

\* The bits uint32_t is given: enough for every TimePoint and every gap.
Uint32Bits == 16

\* std::numeric_limits<uint32_t>::max()
UINT32_MAX == 2^Uint32Bits - 1

OtelNames == {"user", "system"}
OtelValues == {1, 2}

\* bool Sample::operator<(const Sample &RHS) const
Sample_less(a, b) == a.TimePoint < b.TimePoint

\* std::lower_bound(IV.begin(), IV.end(), Item): the number of leading
\* elements that are less than Item, IV being partitioned by that.
std_lower_bound(IV, Item) ==
    Cardinality({k \in 1..Len(IV) : \A j \in 1..k : Sample_less(IV[j], Item)})

SortedContainer_push_back(IV, Item) == Append(IV, Item)

\* void SortedContainer::push(const T &Item)
SortedContainer_push(IV, Item) ==
    LET It == std_lower_bound(IV, Item)
    IN  SubSeq(IV, 1, It) \o <<Item>> \o SubSeq(IV, It + 1, Len(IV))

\* T SortedContainer::pop(): the container left and the item.
SortedContainer_pop(IV) == [IV |-> Tail(IV), item |-> Head(IV)]

\* const T& SortedContainer::peek() const
peek(IV) == Head(IV)

\* uint32_t Dimension::startTime() const
Dimension_startTime(IV) == peek(IV).TimePoint

Min2(a, b) == IF a <= b THEN a ELSE b

\* uint32_t Dimension::updateEvery() const: the loop over Idx, from Idx on.
RECURSIVE updateEveryFrom(_, _, _)
updateEveryFrom(IV, Idx, UE) ==
    IF Idx > Len(IV) - 1 THEN UE
    ELSE updateEveryFrom(IV, Idx + 1,
             Min2(UE, (IV[Idx + 1].TimePoint - IV[Idx].TimePoint) % (UINT32_MAX + 1)))

Dimension_updateEvery(IV) == updateEveryFrom(IV, 1, UINT32_MAX)

\* The loop of minUpdateEveryInDimensions over the dimensions in S.
RECURSIVE MinOverDimensions(_, _, _)
MinOverDimensions(Dims, S, UE) ==
    IF S = {} THEN UE
    ELSE LET n == CHOOSE x \in S : TRUE
         IN  MinOverDimensions(Dims, S \ {n}, Min2(UE, Dimension_updateEvery(Dims[n])))

\* absl::optional<uint32_t> DimensionContainer::minUpdateEveryInDimensions() const
minUpdateEveryInDimensions(Dims) ==
    LET UE == MinOverDimensions(Dims, DOMAIN Dims, UINT32_MAX)
    IN  IF UE = UINT32_MAX THEN nullopt ELSE optional(UE)

\* absl::optional<uint32_t> DimensionContainer::updateEvery() const
DimensionContainer_updateEvery(Dims) == minUpdateEveryInDimensions(Dims)

\* The samples the container holds.
RECURSIVE NumSamplesIn(_, _)
NumSamplesIn(Dims, S) ==
    IF S = {} THEN 0
    ELSE LET n == CHOOSE x \in S : TRUE
         IN  Len(Dims[n]) + NumSamplesIn(Dims, S \ {n})

InitOtel == ParkW /\ ParkD /\ ParkY /\ ParkH /\ ParkT /\ ParkQ /\ ParkX

\* DC.add(Name, S): try_emplace, then D.pushSample(S).
Add ==
    /\ NumSamplesIn(Dimensions, DOMAIN Dimensions) < MaxOtelSamples
    /\ \E Name \in OtelNames : \E tp \in 1..MaxTimePoint : \E v \in OtelValues :
          LET S == [Value |-> v, TimePoint |-> tp]
              IV == IF Name \in DOMAIN Dimensions THEN Dimensions[Name] ELSE <<>>
          IN  Dimensions' = [n \in DOMAIN Dimensions \cup {Name} |->
                                IF n = Name THEN SortedContainer_push(IV, S)
                                ELSE Dimensions[n]]
    /\ UNCHANGED <<oh, varsW, varsD, varsH, varsT, varsQ, varsC, varsF,
                   varsB, varsA, varsY>>

\* D.popSample() on a dimension of the container that is not empty.
PopSample ==
    /\ \E Name \in DOMAIN Dimensions :
          /\ Dimensions[Name] # <<>>
          /\ LET r == SortedContainer_pop(Dimensions[Name])
                 tps == {Dimensions[Name][k].TimePoint : k \in 1..Len(Dimensions[Name])}
             IN  /\ Dimensions' = [Dimensions EXCEPT ![Name] = r.IV]
                 /\ oh' = [popped |-> r.item,
                           least |-> CHOOSE t \in tps : \A u \in tps : t <= u]
    /\ UNCHANGED <<varsW, varsD, varsH, varsT, varsQ, varsC, varsF, varsB,
                   varsA, varsY>>

NextOtel == Add \/ PopSample

SpecOtel == InitOtel /\ [][NextOtel]_vars

\* C28: after any sequence of pushSample and popSample on a Dimension,
\* whatever the order in which samples were pushed, its samples are held in
\* non-decreasing TimePoint order, so that popSample removes and returns the
\* sample with the smallest TimePoint and startTime() is that smallest
\* TimePoint.
C28_SamplesSorted ==
    /\ \A n \in DOMAIN Dimensions :
          /\ \A j, k \in 1..Len(Dimensions[n]) :
                j < k => Dimensions[n][j].TimePoint <= Dimensions[n][k].TimePoint
          /\ Dimensions[n] # <<>> =>
                \A k \in 1..Len(Dimensions[n]) :
                   Dimension_startTime(Dimensions[n]) <= Dimensions[n][k].TimePoint
    /\ oh.popped.TimePoint = oh.least

\* C28 witness: a dimension holds three samples, not all of one TimePoint,
\* after a pop gave back a sample of TimePoint 1.
C28_Witness ==
    /\ oh.popped.TimePoint = 1
    /\ \E n \in DOMAIN Dimensions :
          /\ Len(Dimensions[n]) = 3
          /\ Dimensions[n][1].TimePoint < Dimensions[n][3].TimePoint

\* The gaps between consecutive samples of the dimensions.
OtelGaps ==
    UNION { {Dimensions[n][k + 1].TimePoint - Dimensions[n][k].TimePoint :
                k \in 1..(Len(Dimensions[n]) - 1)} : n \in DOMAIN Dimensions }

\* C29: DimensionContainer.updateEvery() equals the minimum, over its
\* dimensions, of the smallest gap between consecutive sample TimePoints of
\* that dimension, and it equals UINT32_MAX while no dimension holds two
\* samples.
C29_UpdateEveryIsMinGap ==
    DOMAIN Dimensions # {} =>
        DimensionContainer_updateEvery(Dimensions) =
            IF OtelGaps = {} THEN optional(UINT32_MAX)
            ELSE optional(CHOOSE g \in OtelGaps : \A h \in OtelGaps : g <= h)

(***************************************************************************)
(* SpecProcess: a DimensionContainer to which samples are added as in      *)
(* SpecOtel and on which process(RampUpThreshold, GapThreshold) is called  *)
(* whenever it holds a sample in every dimension, in a build with or       *)
(* without assertions.  A failed assert() ends the process in the first    *)
(* build; value() on an empty optional throws in both.                     *)
(***************************************************************************)

\* Largest RampUpThreshold and GapThreshold process() is called with.
MaxThreshold == 3

\* size_t DimensionContainer::maxDataPointsInDimensions() const
maxDataPointsInDimensions(Dims) ==
    LET lens == {Len(Dims[n]) : n \in DOMAIN Dims} \cup {0}
    IN  CHOOSE m \in lens : \A l \in lens : l <= m

\* absl::optional<uint32_t> DimensionContainer::minStartTimeInDimensions() const
minStartTimeInDimensions(Dims) ==
    LET tps == {Dimension_startTime(Dims[n]) : n \in DOMAIN Dims} \cup {UINT32_MAX}
        TP  == CHOOSE m \in tps : \A t \in tps : m <= t
    IN  IF TP = UINT32_MAX THEN nullopt ELSE optional(TP)

\* absl::optional<uint64_t> DimensionContainer::startTime() const
DimensionContainer_startTime(Dims) == minStartTimeInDimensions(Dims)

\* absl::optional<uint32_t> DimensionContainer::lastCollectedTime(uint32_t UE)
\* const: what it returns, or that StartTime.value() threw.
lastCollectedTime(Dims, UE) ==
    LET StartTime == DimensionContainer_startTime(Dims)
    IN  IF StartTime.has_value
        THEN [threw |-> FALSE, opt |-> nullopt]
        ELSE [threw |-> TRUE, opt |-> nullopt]

\* int Dimension::compareCollectionTime(uint32_t LCT, uint32_t UpdateEvery)
\* const, the doubles compared after doubling both sides.
compareCollectionTime(IV, LCT, UE) ==
    LET sum == (LCT + UE) % (UINT32_MAX + 1)
    IN  IF 2 * Dimension_startTime(IV) < 2 * sum - UE THEN -1
        ELSE IF 2 * Dimension_startTime(IV) >= 2 * sum + UE THEN 1
        ELSE 0

\* bool DimensionContainer::processFastPath(IV): the loops from the k-th
\* dimension of the iteration order on; the container left and Ok.
RECURSIVE FastPathFrom(_, _, _, _, _, _)
FastPathFrom(Dims, order, k, LCT, UE, Ok) ==
    IF k > Len(order) THEN FastPathFrom(Dims, order, 1, LCT, UE, Ok)
    ELSE IF Dims[order[k]] = <<>> THEN [Ok |-> Ok, Dims |-> Dims]
    ELSE IF compareCollectionTime(Dims[order[k]], LCT, UE) # 0
    THEN [Ok |-> Ok, Dims |-> Dims]
    ELSE FastPathFrom([Dims EXCEPT ![order[k]] = SortedContainer_pop(@).IV],
                      order, k + 1, LCT, UE, TRUE)

\* The order in which the container's map is iterated.
RECURSIVE NameOrder(_)
NameOrder(S) ==
    IF S = {} THEN <<>>
    ELSE LET n == CHOOSE x \in S : TRUE IN <<n>> \o NameOrder(S \ {n})

processFastPath(Dims, LCT, UE) ==
    FastPathFrom(Dims, NameOrder(DOMAIN Dims), 1, LCT, UE, FALSE)

\* bool DimensionContainer::dropPastCollectionTimes(): the samples left.
RECURSIVE DropPast(_, _, _)
DropPast(IV, LCT, UE) ==
    IF IV # <<>> /\ 2 * Dimension_startTime(IV) < 2 * LCT + UE
    THEN DropPast(SortedContainer_pop(IV).IV, LCT, UE)
    ELSE IV

dropPastCollectionTimes(Dims, LCT, UE) ==
    [n \in DOMAIN Dims |-> DropPast(Dims[n], LCT, UE)]

\* The block of processSlowPath that recalculates: UpdateEvery =
\* updateEvery(), the assert, LastCollectedTime = lastCollectedTime(...),
\* the assert.  c is the container's record, Dims its dimensions.
Recalculate(c, Dims) ==
    LET UE == DimensionContainer_updateEvery(Dims)
        c1 == [c EXCEPT !.UpdateEvery = UE]
    IN  IF ~UE.has_value
        THEN [c1 EXCEPT !.pc = IF c.NDEBUG THEN "returned" ELSE "assert"]
        ELSE LET r == lastCollectedTime(Dims, UE.value)
             IN  IF r.threw THEN [c1 EXCEPT !.pc = "threw"]
                 ELSE [c1 EXCEPT !.LastCollectedTime = r.opt,
                                 !.pc = IF r.opt.has_value \/ c.NDEBUG
                                        THEN "returned" ELSE "assert"]

\* void DimensionContainer::processSlowPath(RampUpThreshold, GapThreshold, IV)
processSlowPath(c, Dims, RampUpThreshold, GapThreshold) ==
    IF ~c.UpdateEvery.has_value
    THEN IF maxDataPointsInDimensions(Dims) >= RampUpThreshold
         THEN [c |-> Recalculate(c, Dims), Dims |-> Dims]
         ELSE [c |-> [c EXCEPT !.pc = "returned"], Dims |-> Dims]
    ELSE LET left == dropPastCollectionTimes(Dims, c.LastCollectedTime.value,
                                             c.UpdateEvery.value)
         IN  IF maxDataPointsInDimensions(left) >= GapThreshold
                /\ \A n \in DOMAIN left : left[n] # <<>>
             THEN [c |-> Recalculate(c, left), Dims |-> left]
             ELSE [c |-> [c EXCEPT !.pc = "returned"], Dims |-> left]

\* void DimensionContainer::process(RampUpThreshold, GapThreshold, IV)
process(c, Dims, RampUpThreshold, GapThreshold) ==
    IF c.UpdateEvery.has_value
    THEN IF ~c.LastCollectedTime.has_value
         THEN [c |-> [c EXCEPT !.pc = IF c.NDEBUG THEN "threw" ELSE "assert"],
               Dims |-> Dims]
         ELSE LET f == processFastPath(Dims, c.LastCollectedTime.value,
                                       c.UpdateEvery.value)
              IN  IF f.Ok THEN [c |-> [c EXCEPT !.pc = "returned"], Dims |-> f.Dims]
                  ELSE processSlowPath(c, f.Dims, RampUpThreshold, GapThreshold)
    ELSE processSlowPath(c, Dims, RampUpThreshold, GapThreshold)

InitProcess ==
    /\ ParkW /\ ParkD /\ ParkH /\ ParkT /\ ParkQ /\ ParkX /\ ParkM
    /\ \E b \in BOOLEAN : dc = [NoProcess EXCEPT !.NDEBUG = b]

\* DC.add(Name, S) while the process runs.
ProcessAdd ==
    /\ dc.pc \notin {"assert", "threw"}
    /\ Add

\* DC.process(RampUpThreshold, GapThreshold, IV) on a container that has
\* dimensions, none of them empty.
Process ==
    /\ dc.pc \notin {"assert", "threw"}
    /\ Dimensions # << >>
    /\ \A n \in DOMAIN Dimensions : Dimensions[n] # <<>>
    /\ \E RampUpThreshold \in 2..MaxThreshold : \E GapThreshold \in 2..MaxThreshold :
          LET r == process(dc, Dimensions, RampUpThreshold, GapThreshold)
          IN  /\ dc' = r.c
              /\ Dimensions' = r.Dims
    /\ UNCHANGED <<oh, varsW, varsD, varsH, varsT, varsQ, varsC, varsF, varsB, varsA,
                   varsM>>

NextProcess == ProcessAdd \/ Process

SpecProcess == InitProcess /\ [][NextProcess]_vars

\* C40: whenever process() has established UpdateEvery on the slow path,
\* LastCollectedTime has a value as well, so the assertion
\* LastCollectedTime.has_value() never fails and later calls can take the
\* fast path.
C40_LastCollectedTimeSet ==
    /\ dc.pc \notin {"assert", "threw"}
    /\ dc.UpdateEvery.has_value => dc.LastCollectedTime.has_value

(***************************************************************************)
(* SpecAD: an AnomalyDetector(AfterT, BeforeT) over 1..MaxVectorSize       *)
(* seconds, asked once for getAnomalyEvents(RD, MinSize, MinRate) on a     *)
(* dimension with any anomaly bit vector, any MinSize in                   *)
(* 0..MaxVectorSize + 1 and any MinRate k / MaxRateDen in [0, 1].          *)
(* ABV[Idx] of the code is ABV[Idx + 1] here.                              *)
(***************************************************************************)

MaxVectorSize == 5
MaxAfterT == 1
MaxRateDen == 3

\* Rate >= MinRate for Rate = Counter / MinSize: 0 / 0 is a NaN, which
\* compares false.
RateGE(Counter, MinSize, MinRate) ==
    MinSize # 0 /\ Counter * MinRate.den >= MinRate.num * MinSize

\* The sum of ABV[Idx] for Idx in 0..n-1.
RECURSIVE CounterOf(_, _)
CounterOf(ABV, n) ==
    IF n = 0 THEN 0 ELSE CounterOf(ABV, n - 1) + (IF ABV[n] THEN 1 ELSE 0)

\* The loop over WindowStart, WindowEnd of getAnomalyEvents, from
\* WindowStart on.
RECURSIVE SlideFrom(_, _, _, _, _, _, _)
SlideFrom(ABV, AfterT, MinSize, MinRate, WindowStart, Counter, aev) ==
    LET WindowEnd == WindowStart + MinSize - 1
    IN  IF WindowEnd = Len(ABV) THEN aev
        ELSE LET c == Counter + (IF ABV[WindowEnd + 1] THEN 1 ELSE 0)
                              - (IF ABV[WindowStart] THEN 1 ELSE 0)
             IN  SlideFrom(ABV, AfterT, MinSize, MinRate, WindowStart + 1, c,
                           IF RateGE(c, MinSize, MinRate)
                           THEN Append(aev, <<AfterT + WindowStart, AfterT + WindowEnd>>)
                           ELSE aev)

RECURSIVE MergeFrom_lt(_, _, _)
MergeFrom_lt(aev, Idx, N) ==
    IF Idx = Len(aev) THEN SubSeq(aev, 1, N)
    ELSE LET PrevAE == aev[N]
             CurrAE == aev[Idx + 1]
         IN  IF CurrAE[1] < PrevAE[2]
             THEN MergeFrom_lt([aev EXCEPT ![N] = <<PrevAE[1], CurrAE[2]>>], Idx + 1, N)
             ELSE MergeFrom_lt([aev EXCEPT ![N + 1] = CurrAE], Idx + 1, N + 1)

\* The loop over Idx that merges the events in place, from Idx on, and the
\* resize(N) after it.  AEV[N - 1] of the code is aev[N].
RECURSIVE MergeFrom(_, _, _)
MergeFrom(aev, Idx, N) ==
    IF Idx = Len(aev) THEN SubSeq(aev, 1, N)
    ELSE LET PrevAE == aev[N]
             CurrAE == aev[Idx + 1]
         IN  IF CurrAE[1] <= PrevAE[2]
             THEN MergeFrom([aev EXCEPT ![N] = <<PrevAE[1], CurrAE[2]>>], Idx + 1, N)
             ELSE MergeFrom([aev EXCEPT ![N + 1] = CurrAE], Idx + 1, N + 1)

\* std::vector<AnomalyEvent> AnomalyDetector::getAnomalyEvents(RD, MinSize, MinRate),
\* ABV being what getAnomalyBitVector(RD, true) returns.
getAnomalyEvents(ABV, AfterT, MinSize, MinRate) ==
    IF Len(ABV) < MinSize THEN <<>>
    ELSE LET Counter == CounterOf(ABV, MinSize)
             first == IF RateGE(Counter, MinSize, MinRate)
                      THEN << <<AfterT, AfterT + MinSize - 1>> >>
                      ELSE <<>>
             aev == SlideFrom(ABV, AfterT, MinSize, MinRate, 1, Counter, first)
         IN  IF Len(aev) = 0 THEN aev ELSE MergeFrom(aev, 1, 1)

InitAD ==
    /\ ParkW /\ ParkD /\ ParkY /\ ParkH /\ ParkT /\ ParkQ /\ ParkC /\ ParkF /\ ParkB /\ ParkO
    /\ AEV = <<>>
    /\ \E n \in 1..MaxVectorSize : \E bits \in [1..n -> BOOLEAN] :
       \E a \in 0..MaxAfterT : \E m \in 0..(MaxVectorSize + 1) : \E k \in 0..MaxRateDen :
          ad = [pc |-> "ready", AfterT |-> a, BeforeT |-> a + n - 1, ABV |-> bits,
                MinSize |-> m, MinRate |-> Fraction(k, MaxRateDen)]

\* AD.getAnomalyEvents(RD, MinSize, MinRate)
GetAnomalyEvents ==
    /\ ad.pc = "ready"
    /\ AEV' = getAnomalyEvents(ad.ABV, ad.AfterT, ad.MinSize, ad.MinRate)
    /\ ad' = [ad EXCEPT !.pc = "returned"]
    /\ UNCHANGED <<varsW, varsD, varsH, varsT, varsQ, varsC, varsF, varsB,
                   varsO, varsY>>

NextAD == GetAnomalyEvents

SpecAD == InitAD /\ [][NextAD]_vars

\* The windows of MinSize consecutive seconds inside [AfterT, BeforeT], by
\* their first second, whose fraction of set bits is at least MinRate.
ADWindows ==
    IF ad.MinSize = 0 THEN {}
    ELSE {t \in ad.AfterT..(ad.BeforeT - ad.MinSize + 1) :
            Cardinality({u \in t..(t + ad.MinSize - 1) : ad.ABV[u - ad.AfterT + 1]})
                * ad.MinRate.den >= ad.MinRate.num * ad.MinSize}

\* The seconds those windows cover, and the seconds the events cover.
ADWindowSeconds == UNION {t..(t + ad.MinSize - 1) : t \in ADWindows}
ADEventSeconds == UNION {AEV[i][1]..AEV[i][2] : i \in 1..Len(AEV)}

\* Seconds t and t + 1 lie in one window.
ADLinked(t) == \E w \in ADWindows : w <= t /\ t + 1 <= w + ad.MinSize - 1

\* C30: getAnomalyEvents(MinSize, MinRate) returns, in ascending time order,
\* pairwise non-overlapping intervals whose union is exactly the union of
\* all windows of MinSize consecutive seconds inside [AfterT, BeforeT]
\* whose fraction of set anomaly bits is at least MinRate; windows that
\* overlap are merged into one interval and windows that do not overlap
\* stay separate intervals.
C30_EventsAreMergedWindows ==
    ad.pc = "returned" =>
        /\ \A i \in 1..Len(AEV) : AEV[i][1] <= AEV[i][2]
        /\ \A i, j \in 1..Len(AEV) : i < j => AEV[i][2] < AEV[j][1]
        /\ ADEventSeconds = ADWindowSeconds
        /\ \A w \in ADWindows : \E i \in 1..Len(AEV) :
              AEV[i][1] <= w /\ w + ad.MinSize - 1 <= AEV[i][2]
        /\ \A i \in 1..Len(AEV) : \A t \in AEV[i][1]..(AEV[i][2] - 1) : ADLinked(t)

\* C30 witness: two events came back, the first merged from overlapping
\* windows and the second, which starts in the second after it, kept apart.
C30_Witness ==
    /\ ad.pc = "returned"
    /\ Len(AEV) = 2
    /\ AEV[1][2] - AEV[1][1] + 1 > ad.MinSize
    /\ AEV[2][1] = AEV[1][2] + 1


(***************************************************************************)
(* SpecMap: the dimension map of one Host and its Host::Mutex.  The        *)
(* training thread calls forEachDimension from trainOne, the detection     *)
(* thread calls it from detectOnce (with the callback that detects, or     *)
(* with the one that computes anomaly rates), and a storage thread calls   *)
(* addDimension and removeDimension with any dimension, in the map or      *)
(* not.  Taking the mutex, each callback of a sweep, the block of          *)
(* addDimension / removeDimension under the lock_guard, and the update of  *)
(* NumDimensions after it are steps of their own.                          *)
(***************************************************************************)

\* Calls of addDimension / removeDimension the storage thread makes.
MaxMapCalls == 4

\* The bits size_t is given.
SizeBits == 8

Sweepers == {TrainingThread, DetectionThread}

\* std::lock_guard<std::mutex> Lock(Mutex) by thread t without waiting for
\* the mutex.
lock_guard_nowait(M, t) == [ok |-> TRUE, M |-> M \cup {t}]

\* std::lock_guard<std::mutex> Lock(Mutex) by thread t: whether the
\* constructor can return, and the mutex then.
lock_guard(M, t) == [ok |-> M = {}, M |-> M \cup {t}]

\* ~lock_guard()
unlock(M, t) == M \ {t}

\* std::atomic<size_t> ++ and --
size_t_inc(n) == (n + 1) % 2^SizeBits
size_t_dec(n) == (n - 1) % 2^SizeBits

InitMap == ParkW /\ ParkD /\ ParkY /\ ParkH /\ ParkT /\ ParkQ /\ ParkX

\* Frame of the steps of SpecMap that leave the map and the counter alone.
MapFrame ==
    UNCHANGED <<dims, hRBW, AnomalyRate, DB, dpc, loc, svc, ticks, hist,
                varsW, varsD, varsT, varsQ, varsX, varsP>>

\* A sweeper calls H->forEachDimension(Func).
ForEachCall(t) ==
    /\ call[t].pc = "idle"
    /\ \E fn \in (IF t = TrainingThread THEN {"train"} ELSE {"detect", "anomalyRate"}) :
          call' = [call EXCEPT ![t] = [NoCall EXCEPT !.pc = "lock", !.fn = fn]]
    /\ UNCHANGED <<HostMutex, mhist, DimensionsMap, NumDimensions>>
    /\ MapFrame

\* forEachDimension: the lock_guard is constructed, the loop begins.
ForEachLock(t) ==
    /\ call[t].pc = "lock"
    /\ lock_guard(HostMutex, t).ok
    /\ HostMutex' = lock_guard(HostMutex, t).M
    /\ call' = [call EXCEPT ![t].pc = "loop",
                            ![t].snap = MapOrder(DimensionsMap),
                            ![t].todo = MapOrder(DimensionsMap)]
    /\ UNCHANGED <<mhist, DimensionsMap, NumDimensions>>
    /\ MapFrame

\* forEachDimension: Func(Dim) on the next dimension; the callback of
\* trainOne returns true (break) on Success, the others return false.
ForEachVisit(t) ==
    /\ call[t].pc = "loop"
    /\ call[t].todo # <<>>
    /\ LET Dim == Head(call[t].todo)
       IN  /\ \E brk \in (IF call[t].fn = "train" THEN {TRUE, FALSE} ELSE {FALSE}) :
                 call' = [call EXCEPT ![t].todo = IF brk THEN <<>> ELSE Tail(@),
                                      ![t].seen = @ \cup {Dim}]
           /\ mhist' = [mhist EXCEPT
                          !.stale = @ \/ Dim \in mhist.gone \/ Dim \notin DimensionsMap,
                          !.waited = IF call["storage"].pc = "lock"
                                        /\ call["storage"].fn = "remove"
                                     THEN @ \cup {call["storage"].D} ELSE @]
    /\ UNCHANGED <<HostMutex, DimensionsMap, NumDimensions>>
    /\ MapFrame

\* forEachDimension returns: the lock_guard is destroyed.
ForEachReturn(t) ==
    /\ call[t].pc = "loop"
    /\ call[t].todo = <<>>
    /\ HostMutex' = unlock(HostMutex, t)
    /\ call' = [call EXCEPT ![t] = NoCall]
    /\ UNCHANGED <<mhist, DimensionsMap, NumDimensions>>
    /\ MapFrame

\* The storage thread calls addDimension(D) or removeDimension(D).
MapCall(fn, D) ==
    /\ call["storage"].pc = "idle"
    /\ mhist.calls < MaxMapCalls
    /\ call' = [call EXCEPT !["storage"] = [NoCall EXCEPT !.pc = "lock", !.fn = fn, !.D = D]]
    /\ mhist' = [mhist EXCEPT !.calls = @ + 1]
    /\ UNCHANGED <<HostMutex, DimensionsMap, NumDimensions>>
    /\ MapFrame

\* addDimension / removeDimension: the lock_guard of the block is constructed.
MapLock ==
    /\ call["storage"].pc = "lock"
    /\ lock_guard(HostMutex, "storage").ok
    /\ HostMutex' = lock_guard(HostMutex, "storage").M
    /\ call' = [call EXCEPT !["storage"].pc = "block"]
    /\ UNCHANGED <<mhist, DimensionsMap, NumDimensions>>
    /\ MapFrame

\* addDimension: DimensionsMap[D->getRD()] = D; removeDimension:
\* DimensionsMap.erase(D->getRD()); the block ends and the guard goes.
MapBlock ==
    /\ call["storage"].pc = "block"
    /\ DimensionsMap' = IF call["storage"].fn = "add"
                        THEN DimensionsMap \cup {call["storage"].D}
                        ELSE DimensionsMap \ {call["storage"].D}
    /\ HostMutex' = unlock(HostMutex, "storage")
    /\ call' = [call EXCEPT !["storage"].pc = "count"]
    /\ mhist' = [mhist EXCEPT !.gone = IF call["storage"].fn = "add"
                                       THEN @ \ {call["storage"].D} ELSE @]
    /\ UNCHANGED NumDimensions
    /\ MapFrame

\* addDimension: NumDimensions++; removeDimension: NumDimensions--; return.
MapCount ==
    /\ call["storage"].pc = "count"
    /\ NumDimensions' = IF call["storage"].fn = "add"
                        THEN size_t_inc(NumDimensions) ELSE size_t_dec(NumDimensions)
    /\ call' = [call EXCEPT !["storage"] = NoCall]
    /\ mhist' = [mhist EXCEPT !.gone = IF call["storage"].fn = "remove"
                                       THEN @ \cup {call["storage"].D} ELSE @]
    /\ UNCHANGED <<HostMutex, DimensionsMap>>
    /\ MapFrame

NextMap ==
    \/ \E t \in Sweepers : ForEachCall(t)
    \/ \E t \in Sweepers : ForEachLock(t)
    \/ \E t \in Sweepers : ForEachVisit(t)
    \/ \E t \in Sweepers : ForEachReturn(t)
    \/ \E D \in DimIds : MapCall("add", D)
    \/ \E D \in DimIds : MapCall("remove", D)
    \/ MapLock
    \/ MapBlock
    \/ MapCount

SpecMap == InitMap /\ [][NextMap]_vars

\* C32: no sweep calls its callback on a dimension whose removeDimension
\* has returned (and that was not added again), and while a sweep is in
\* its loop it holds the mutex alone and the map is the one it began with:
\* a removal requested meanwhile takes effect only after the sweep's pass.
C32_NoCallAfterRemoval ==
    /\ ~mhist.stale
    /\ \A t \in Sweepers :
          call[t].pc = "loop" =>
             /\ HostMutex = {t}
             /\ call[t].snap = MapOrder(DimensionsMap)
             /\ call[t].seen \cap mhist.gone = {}

\* C32 witness: dimension 1 is gone, its removal had to wait for a sweep
\* that visited it, and a later sweep is in its pass over what is left.
C32_Witness ==
    /\ mhist.gone = {1} /\ 1 \in mhist.waited
    /\ \E t \in Sweepers :
          call[t].pc = "loop" /\ call[t].snap = <<2>> /\ call[t].seen = {2}

\* C34: whenever no addDimension or removeDimension call is in progress,
\* getNumDimensions() equals the number of entries of the dimension map.
C34_CountIsMapSize ==
    call["storage"].pc = "idle" => NumDimensions = Cardinality(DimensionsMap)

\* C37: a sweep that waits for the mutex waits for addDimension or
\* removeDimension only, never for the other sweep.
C37_OnlyWritersExcludeSweeps ==
    \A t \in Sweepers :
       (call[t].pc = "lock" /\ HostMutex # {}) => HostMutex = {"storage"}
=============================================================================
